---- MODULE Spec2Model ----
(***************************************************************************)
(* Model of the credit-report RAG pipeline: the resilience layer around    *)
(* the completion API (generateSectionContent), the four-section report    *)
(* run (generateEnhancedReportSections), the localStorage caches, the      *)
(* ReportGenerator UI handler (handleGenerate) and the Q&A call            *)
(* (answerQuestionFromReport).                                             *)
(*                                                                         *)
(* Time is explicit: `now` is Date.now() in milliseconds and every         *)
(* setTimeout is a record in `timers` whose `left` field counts down as    *)
(* time advances; a timer's callback runs when its `left` is 0.            *)
(***************************************************************************)
EXTENDS Integers, Sequences, FiniteSets, TLC

VARIABLES
    now,      \* Date.now(), ms
    timers,   \* pending setTimeout callbacks
    task,     \* the state of each generateSectionContent call chain
    budget,   \* how many more failures the environment may still inject
    storage,  \* localStorage: key -> [data, timestamp]
    wrote,    \* key -> when and what the last successful setItem of the key stored
    lastGet,  \* the outcome of the last cache read
    ui,       \* React state of the page (Index) and of ReportGenerator
    run,      \* the handleGenerate invocation in progress
    gen,      \* the generateEnhancedReportSections call in progress
    notices,  \* the terminal toasts and deliveries of the current run, in order
    qa,       \* the answerQuestionFromReport / answerQuestion call in progress
    server,   \* the server: its generate-report request and generateReportSections call
    index,    \* the createVectorStore call in progress
    pure      \* the call of a text function or of a progress-reporting function under examination

sectionVars == <<task>>
cacheVars == <<storage, wrote, lastGet>>
pageVars == <<ui, run, gen, notices>>
vars == <<now, timers, task, budget, storage, wrote, lastGet, ui, run, gen, notices, qa, server,
          index, pure>>

NoCall == [fn |-> "none"]

\* ------------------------------------------------------------------ bounds
MaxSectionFaults == 4     \* failures injected into a single section call
MaxClockHours == 25       \* how far the clock runs in the cache specification
MaxReportFaults == 1      \* failures (of requests, of localStorage) and delays injected into the report runs
MaxRuns == 2              \* handleGenerate invocations, and requests to the server
MaxQuestions == 2         \* Q&A calls
MaxChunks == 51           \* chunks of a document handed to createVectorStore
MaxCallbackThrows == 1    \* how often an onProgress callback throws during one call
MaxTextLen == 4           \* characters of a text handed to a text function
MaxSegments == 3          \* pieces an extracted text is put together from
MaxPieces == 3            \* pieces (text chunks, page groups, batches) one progress-reporting call works through
MaxVectors == 5            \* vectors of a store that is queried

\* --------------------------------------------------------------- constants
SectionTimeoutMs     == 30000   \* setTimeout(() => controller.abort(), 30000)
MaxRateLimitRetries  == 3       \* response.status === 429 && retryCount < 3
MaxGenericRetries    == 2       \* if (retryCount < 2)
RateLimitBaseDelayMs == 2000    \* Math.pow(2, retryCount) * 2000
RetryDelayMs         == 1000    \* setTimeout(resolve, 1000)
ProcessingTimeoutMs  == 8 * 60 * 1000   \* the whole-run timer of handleGenerate
MinTextLength        == 100     \* extractedText.length < 100
QaTimeoutMs          == 25000   \* setTimeout(() => controller.abort(), 25000)

CACHE_EXPIRY     == 24 * 60 * 60 * 1000
PDF_CACHE_EXPIRY == 24 * 60 * 60 * 1000
CACHE_PREFIX     == "creditai_cache_"
PDF_CACHE_PREFIX == "creditai_pdf_cache_"
PdfCacheMaxChars == 5 * 1024 * 1024
HourMs   == 60 * 60 * 1000
MinuteMs == 60 * 1000

sectionTypes == <<"overview", "financialHighlights", "keyRisks", "managementCommentary">>
Sections == {sectionTypes[i] : i \in 1..Len(sectionTypes)}

\* What the completion API can do with one request.
\*   ok        a 2xx response whose body holds a completion
\*   malformed a 2xx response whose body cannot be read (json() or choices[0] throws)
\*   http      a non-2xx response with the given status
\*   network   fetch rejects (no response)
ErrorStatuses == {429, 500, 503}
OkOutcome        == [kind |-> "ok", status |-> 200]
MalformedOutcome == [kind |-> "malformed", status |-> 200]
NetworkOutcome   == [kind |-> "network", status |-> 0]
TimeoutOutcome   == [kind |-> "timeout", status |-> 0]
HttpOutcome(s)   == [kind |-> "http", status |-> s]
FaultOutcomes == {HttpOutcome(s) : s \in ErrorStatuses} \cup {MalformedOutcome, NetworkOutcome}
Outcomes == {OkOutcome} \cup FaultOutcomes

NoError == [kind |-> "none", status |-> 0]

\* ------------------------------------------------------------------ timers
AbortTimer(t, n, ms)   == [owner |-> t, kind |-> "abort", attempt |-> n, left |-> ms]
BackoffTimer(t, n, ms) == [owner |-> t, kind |-> "backoff", attempt |-> n, left |-> ms]

\* clearTimeout(timeoutId) of attempt n of task t
ClearTimeoutLeaky(ts, t, n) == ts
ClearTimeout(ts, t, n) ==
    {tm \in ts : ~(tm.owner = t /\ tm.kind = "abort" /\ tm.attempt = n)}

\* Math.pow(2, retryCount) * 2000
RateLimitDelay(retryCount) == (2 ^ retryCount) * RateLimitBaseDelayMs

\* response.status === 429 && retryCount < 3
RateLimitRetryTwice(o, retryCount) ==
    o.kind = "http" /\ o.status = 429 /\ retryCount < 2
RateLimitRetry(o, retryCount) ==
    o.kind = "http" /\ o.status = 429 /\ retryCount < MaxRateLimitRetries

\* catch: if (retryCount < 2) retry after a fixed delay
GenericRetryOwnCounter(retryCount) == retryCount < MaxGenericRetries + MaxRateLimitRetries
GenericRetry(retryCount) == retryCount < MaxGenericRetries

\* The error a failed attempt throws: `API request failed with status ${status}`
\* for a non-2xx response, the fetch/json error otherwise.
ErrorOfGeneric(o) == [kind |-> o.kind, status |-> 0]
ErrorOf(o) == [kind |-> o.kind, status |-> o.status]

\* the error thrown for an AbortError: 'Request timed out. Please try again.'
TimeoutError == [kind |-> "timeout", status |-> 0]

\* if (error.name === 'AbortError') throw ...: checked before the retry test,
\* so an aborted attempt is never retried.
TimeoutRetried(retryCount) == ~GenericRetry(retryCount)
TimeoutRejects(retryCount) == TRUE

\* The text a section call returns: the completion for that section of that
\* document and company, after formatBulletPoints.
NoContent == [section |-> "", doc |-> "", company |-> ""]
SectionContent(t) == [section |-> t, doc |-> run.text.id, company |-> run.companyName]

\* One generateSectionContent call chain.  requests counts the fetches issued,
\* resps and waits log what came back and the delays slept before retries,
\* sentAt is the time the pending fetch was issued, elapsed how long the last
\* settled fetch was pending, slept how long the call slept before this fetch.
IdleTask == [pc |-> "idle", retryCount |-> 0, requests |-> 0,
             resps |-> <<>>, waits |-> <<>>, sentAt |-> 0, elapsed |-> 0, slept |-> 0,
             content |-> NoContent, error |-> NoError]

\* ---------------------------------------------------------- page and run
NoFile == [name |-> "", lastModified |-> 0, size |-> 0]
NoText == [kind |-> "text", id |-> "", length |-> 0]
NoReport == [kind |-> "null"]

\* useState initial values of Index and ReportGenerator
InitialPage == [uploadedFile |-> NoFile, generatedReport |-> NoReport,
                isProcessing |-> FALSE, isGenerating |-> FALSE]

\* run.id counts the handleGenerate invocations; text is extractedText.
\* run.prev remembers the last generateEnhancedReportSections call that
\* resolved before this run: its cache key, when it resolved and with what.
NoPrev == [key |-> "", at |-> 0, result |-> NoReport]
NoRun == [id |-> 0, pc |-> "idle", file |-> NoFile, companyName |-> "", text |-> NoText,
          prev |-> NoPrev]

\* gen.result is what the call resolves with, gen.error what it rejects with,
\* gen.at when it resolved; gen.progress lists the values passed to
\* onProgress, in percent.
NoGen == [pc |-> "idle", cacheKey |-> "", result |-> NoReport, error |-> NoError,
          at |-> 0, progress |-> <<>>]

\* The answers of a Q&A call: the completion for the document the vector
\* store was built from, or the message returned for an aborted request.
NoAnswer == ""
QaAnswer(doc) == "answer from " \o doc
QaTimeoutAnswer == "The request timed out. Please try asking a simpler question."
NoStore == [kind |-> "vectorStore", doc |-> "", live |-> FALSE]
NoQaText == [kind |-> "text", id |-> "", head |-> "", length |-> 0]

\* qa.site is where the call runs, qa.asked counts the calls, qa.store is the
\* vector store in use, requests and resps log the completion requests,
\* sentAt is when the completion request was issued and elapsed how long it
\* was pending.
IdleQa == [site |-> "", pc |-> "idle", asked |-> 0, companyName |-> "",
           text |-> NoQaText, store |-> NoStore, requests |-> 0, resps |-> <<>>,
           sentAt |-> 0, elapsed |-> 0, answer |-> NoAnswer, error |-> NoError]

\* The server's responses and section promises.
NoResponse == [status |-> 0, body |-> NoReport]
ErrorBody == [kind |-> "error"]

IdleServerTask == [pc |-> "idle", requests |-> 0, content |-> NoContent, error |-> NoError]

\* server.handled counts the requests taken, server.stores is the set of
\* filenames in the handler's vectorStoreCache, server.result and server.error
\* are what generateReportSections resolves or rejects with; server.askStores is
\* the vectorStoreCache of the ask-question module, from filename to store.
IdleServer == [pc |-> "idle", handled |-> 0, filename |-> "", companyName |-> "",
               text |-> NoText, task |-> [t \in Sections |-> IdleServerTask],
               result |-> NoReport, error |-> NoError,
               response |-> NoResponse, stores |-> {}, askStores |-> <<>>]

\* One createVectorStore call.  caller tells who called ("report": with the
\* onProgress callback, "qa": without), call is the caller's run or question
\* number, n = documents.length, i the loop counter, processedDocs the chunks
\* collected (chunk k of the document is the number k), delays how many
\* one-second pauses the loop made, thrown how often onProgress threw.
\* batch counts the requests of embedDocuments that succeeded, attempts the
\* requests made for the current one; reqs logs every embedding request,
\* resps the responses per request batch, vectors the chunks embedded so far;
\* returned is the vector store the call resolved with.
NoIndexStore == [kind |-> "null"]
IdleIndex == [pc |-> "idle", caller |-> "", call |-> 0, n |-> 0, i |-> 0,
              processedDocs |-> <<>>, delays |-> 0, thrown |-> 0,
              batch |-> 0, attempts |-> 0, reqs |-> <<>>, resps |-> <<>>,
              vectors |-> <<>>, returned |-> NoIndexStore, error |-> NoError]

\* Promise.all(sectionPromises) rejects as soon as one promise rejects ...
AllSettledRejects ==
    /\ \E t \in Sections : task[t].pc = "rejected"
    /\ \A t \in Sections : task[t].pc \in {"resolved", "rejected"}
PromiseAllRejects == \E t \in Sections : task[t].pc = "rejected"

\* ... and resolves when all of them have resolved.
AllSettledResolves == \A t \in Sections : task[t].pc \in {"resolved", "rejected"}
PromiseAllResolves == \A t \in Sections : task[t].pc = "resolved"

\* A promise continuation is ready to run.  Continuations (microtasks) run
\* before any timer callback or network event (macrotasks).
MicrotaskPending ==
    \/ run.pc = "extracted"
    \/ run.pc = "reporting" /\ gen.pc \in {"resolved", "rejected"}
    \/ gen.pc = "sections" /\ (PromiseAllRejects \/ PromiseAllResolves)

\* --------------------------------------------- generateSectionContent
\* Lines 168-196: a fresh AbortController, its 30 s timer, and the fetch.
IssueRequest(t, rc) ==
    /\ task' = [task EXCEPT ![t].pc = "fetch",
                            ![t].retryCount = rc,
                            ![t].requests = @ + 1,
                            ![t].sentAt = now,
                            ![t].slept = IF rc = 0 THEN 0 ELSE now - task[t].sentAt]
    /\ timers' = {tm \in timers : ~(tm.owner = t /\ tm.kind = "backoff")}
                    \cup {AbortTimer(t, task[t].requests + 1, SectionTimeoutMs)}

\* The first call, retryCount = 0.
CallSection(t) ==
    /\ task[t].pc = "call"
    /\ IssueRequest(t, 0)
    /\ UNCHANGED <<now, budget, cacheVars, pageVars, qa, server, index, pure>>

\* The continuation after `await fetch(...)`: lines 198-231.
FetchSettles(t, o) ==
    /\ ~MicrotaskPending
    /\ task[t].pc = "fetch"
    /\ \E tm \in timers : tm.owner = t /\ tm.kind = "abort" /\ tm.attempt = task[t].requests
    /\ IF o \in FaultOutcomes THEN budget > 0 /\ budget' = budget - 1
                              ELSE UNCHANGED budget
    /\ LET rc      == task[t].retryCount
           n       == task[t].requests
           cleared == ClearTimeout(timers, t, n)
           logged  == [task EXCEPT ![t].resps = Append(@, o),
                                   ![t].elapsed = now - task[t].sentAt,
                                   ![t].sentAt = now]
       IN  IF o.kind = "ok"
           THEN /\ task' = [logged EXCEPT ![t].pc = "resolved", ![t].content = SectionContent(t)]
                /\ timers' = cleared
           ELSE IF RateLimitRetry(o, rc)
           THEN /\ task' = [logged EXCEPT ![t].pc = "backoff",
                                          ![t].waits = Append(@, RateLimitDelay(rc))]
                /\ timers' = cleared \cup {BackoffTimer(t, n, RateLimitDelay(rc))}
           ELSE IF GenericRetry(rc)
           THEN /\ task' = [logged EXCEPT ![t].pc = "backoff",
                                          ![t].waits = Append(@, RetryDelayMs)]
                /\ timers' = cleared \cup {BackoffTimer(t, n, RetryDelayMs)}
           ELSE /\ task' = [logged EXCEPT ![t].pc = "rejected", ![t].error = ErrorOf(o)]
                /\ timers' = cleared
    /\ UNCHANGED <<now, cacheVars, pageVars, qa, server, index, pure>>

\* The 30 s timer of attempt n runs controller.abort().  If that attempt's
\* fetch is still pending it rejects with AbortError, which the catch block
\* turns into the timeout error without retrying (lines 217-221).
AbortTimerFires(t) ==
    \E tm \in timers :
        /\ ~MicrotaskPending
        /\ tm.owner = t /\ tm.kind = "abort" /\ tm.left = 0
        /\ IF task[t].pc = "fetch" /\ tm.attempt = task[t].requests
           THEN LET logged == [task EXCEPT ![t].resps = Append(@, TimeoutOutcome),
                                           ![t].elapsed = now - task[t].sentAt,
                                           ![t].sentAt = now]
                IN  IF TimeoutRejects(task[t].retryCount)
                    THEN /\ task' = [logged EXCEPT ![t].pc = "rejected",
                                                   ![t].error = TimeoutError]
                         /\ timers' = timers \ {tm}
                    ELSE /\ task' = [logged EXCEPT ![t].pc = "backoff",
                                                   ![t].waits = Append(@, RetryDelayMs)]
                         /\ timers' = (timers \ {tm})
                                \cup {BackoffTimer(t, tm.attempt, RetryDelayMs)}
           ELSE /\ UNCHANGED task
                /\ timers' = timers \ {tm}
        /\ UNCHANGED <<now, budget, cacheVars, pageVars, qa, server, index, pure>>

\* The backoff promise resolves and the recursive call is made with
\* retryCount + 1 (lines 203-204 and 225-226).
BackoffElapsed(t) ==
    /\ ~MicrotaskPending
    /\ task[t].pc = "backoff"
    /\ \E tm \in timers : tm.owner = t /\ tm.kind = "backoff" /\ tm.left = 0
    /\ IssueRequest(t, task[t].retryCount + 1)
    /\ UNCHANGED <<now, budget, cacheVars, pageVars, qa, server, index, pure>>

\* ------------------------------------------------------------------ caches
\* The files a user can upload: File.name, File.lastModified, File.size.
Files == { [name |-> "a.pdf", lastModified |-> 1, size |-> 100],
           [name |-> "b.pdf", lastModified |-> 2, size |-> 200] }

\* `${CACHE_PREFIX}${file.name}_${file.lastModified}_${file.size}`
getCacheKeyUnseparated(file) ==
    CACHE_PREFIX \o file.name \o ToString(file.lastModified) \o ToString(file.size)
getCacheKey(file) ==
    CACHE_PREFIX \o file.name \o "_" \o ToString(file.lastModified)
                 \o "_" \o ToString(file.size)

\* `${PDF_CACHE_PREFIX}${file.name}_${file.lastModified}_${file.size}`
getPdfCacheKey(file) ==
    PDF_CACHE_PREFIX \o file.name \o "_" \o ToString(file.lastModified)
                     \o "_" \o ToString(file.size)

\* localStorage.removeItem(key)
removeItemAndRest(st, key) == [k \in {} |-> st[k]]
removeItem(st, key) == [k \in (DOMAIN st) \ {key} |-> st[k]]

\* localStorage.setItem(key, JSON.stringify({data, timestamp: Date.now()}))
setItem(st, key, data, t) ==
    [k \in (DOMAIN st) \cup {key} |->
        IF k = key THEN [data |-> data, timestamp |-> t] ELSE st[k]]

\* Date.now() - parsed.timestamp > CACHE_EXPIRY
CacheNeverExpires(entry, t) == FALSE
CacheExpired(entry, t) == t - entry.timestamp > CACHE_EXPIRY

\* Date.now() - parsed.timestamp > PDF_CACHE_EXPIRY
PdfCacheExpired(entry, t) == t - entry.timestamp > PDF_CACHE_EXPIRY

NoData == [kind |-> "null"]
Miss == [hit |-> FALSE, data |-> NoData]
Hit(data) == [hit |-> TRUE, data |-> data]

\* Items that JSON.stringify of setItem did not produce: a string that is not
\* JSON (JSON.parse throws a SyntaxError) and the JSON text null (reading
\* parsed.timestamp throws a TypeError).  Both end in the catch block.
NotJson == [raw |-> "{data:"]
JsonNull == [raw |-> "null"]
Unreadable == {NotJson, JsonNull}

\* A lookup that already misses an entry of exactly 24 h.
getFromCacheEager(st, key, t) ==
    IF key \notin DOMAIN st THEN Miss
    ELSE IF t - st[key].timestamp >= CACHE_EXPIRY THEN Miss
    ELSE Hit(st[key].data)

\* getFromCache: what it returns, and localStorage after it.
getFromCacheUncaught(st, key, t) ==
    IF key \notin DOMAIN st THEN Miss
    ELSE IF st[key] \in Unreadable THEN Hit(st[key])
    ELSE IF CacheExpired(st[key], t) THEN Miss
    ELSE Hit(st[key].data)
getFromCache(st, key, t) ==
    IF key \notin DOMAIN st THEN Miss
    ELSE IF st[key] \in Unreadable THEN Miss
    ELSE IF CacheExpired(st[key], t) THEN Miss
    ELSE Hit(st[key].data)

StorageAfterGet(st, key, t) ==
    IF key \in DOMAIN st /\ st[key] \notin Unreadable /\ CacheExpired(st[key], t)
    THEN removeItem(st, key) ELSE st

\* getPdfFromCache: what it returns, and localStorage after it.
getPdfFromCache(st, key, t) ==
    IF key \notin DOMAIN st THEN Miss
    ELSE IF st[key] \in Unreadable THEN Miss
    ELSE IF PdfCacheExpired(st[key], t) THEN Miss
    ELSE Hit(st[key].data)

StorageAfterPdfGet(st, key, t) ==
    IF key \in DOMAIN st /\ st[key] \notin Unreadable /\ PdfCacheExpired(st[key], t)
    THEN removeItem(st, key) ELSE st

\* setCache: localStorage after it; `stored` is false when setItem throws
\* (quota exceeded), which setCache swallows.
setCache(st, key, data, t, stored) ==
    IF stored THEN setItem(st, key, data, t) ELSE st

\* setPdfCache: only texts shorter than 5 MB are stored.
setPdfCache(st, key, text, t, stored) ==
    IF text.length < PdfCacheMaxChars /\ stored THEN setItem(st, key, text, t) ELSE st

\* A cache read as the caller saw it: the key, the time, the result, and
\* the last write of that key before the read (timestamp -1: never written).
NeverWritten == [data |-> NoData, timestamp |-> -1]
LastWrite(key) == IF key \in DOMAIN wrote THEN wrote[key] ELSE NeverWritten
NoGet == [key |-> "", at |-> 0, result |-> Miss, written |-> NeverWritten]

\* The bookkeeping of a write that changed localStorage.
NoteWrite(key, st2) ==
    wrote' = IF st2 # storage
             THEN [k \in (DOMAIN wrote) \cup {key} |-> IF k = key THEN st2[key] ELSE wrote[k]]
             ELSE wrote

\* -------------------------------------------------------------------- time
\* Time advances by d; no pending timer is skipped.
Tick(d) ==
    /\ ~MicrotaskPending
    /\ d > 0
    /\ \A tm \in timers : tm.left >= d
    /\ now' = now + d
    /\ timers' = {[tm EXCEPT !.left = @ - d] : tm \in timers}
    /\ UNCHANGED <<task, cacheVars, pageVars, qa, server, index, pure>>

\* The time until the next pending timer is due (0 when there is none).
NextTimerDelay ==
    IF timers = {} THEN 0
    ELSE CHOOSE d \in {tm.left : tm \in timers} : \A tm \in timers : tm.left >= d

\* Time advances while nothing is pending, up to the end of the modelled period.
CacheTick(d) == now + d <= MaxClockHours * HourMs /\ Tick(d) /\ UNCHANGED budget

\* No request of the run is in flight: nothing can happen before a timer is due.
Quiescent ==
    /\ run.pc # "extracting"
    /\ gen.pc # "embedding"
    /\ \A t \in Sections : task[t].pc \notin {"query", "fetch"}

\* While a run is in progress time advances to the next timer.  Time that
\* passes while a request is in flight is a delay of the network, one of the
\* delays the environment may inject.
RunTick ==
    /\ timers # {}
    /\ IF Quiescent THEN UNCHANGED budget
                    ELSE budget > 0 /\ budget' = budget - 1
    /\ Tick(NextTimerDelay)

\* ------------------------------------------- one generateSectionContent call
\* While a section call is in progress time advances in steps of 10 s, or up
\* to the next timer when that is nearer.
SectionTicks == {10000}
SectionTick(d) == Tick(d) /\ UNCHANGED budget

InitSection ==
    /\ now = 0
    /\ timers = {}
    /\ task = [t \in Sections |-> IF t = "overview" THEN [IdleTask EXCEPT !.pc = "call"]
                                                    ELSE IdleTask]
    /\ budget = MaxSectionFaults
    /\ storage = <<>> /\ wrote = <<>> /\ lastGet = NoGet
    /\ ui = InitialPage /\ run = NoRun /\ gen = NoGen /\ notices = <<>>
    /\ qa = IdleQa /\ server = IdleServer /\ index = IdleIndex /\ pure = NoCall

SectionBusy == \E t \in Sections : task[t].pc \in {"fetch", "backoff"}

NextSection ==
    \/ \E t \in Sections : CallSection(t)
    \/ \E t \in Sections, o \in Outcomes : FetchSettles(t, o)
    \/ \E t \in Sections : AbortTimerFires(t)
    \/ \E t \in Sections : BackoffElapsed(t)
    \/ (SectionBusy /\ \E d \in SectionTicks \cup {NextTimerDelay} : SectionTick(d))

SpecSection == InitSection /\ [][NextSection]_vars

\* ------------------------------------------------------------ the report run
Companies == {"Acme"}

\* What text extraction can yield for an upload: too little text, or a document.
ExtractedTexts == { [kind |-> "text", id |-> "scan", length |-> 40],
                    [kind |-> "text", id |-> "doc", length |-> 2000] }

ProcessingTimer(id) == [owner |-> "ui", kind |-> "processing", attempt |-> id,
                        left |-> ProcessingTimeoutMs]

\* clearTimeout(processingTimeout)
ClearProcessingTimeout(ts, id) ==
    {tm \in ts : ~(tm.owner = "ui" /\ tm.kind = "processing" /\ tm.attempt = id)}

\* Index.handleFileUpload, from the FileUpload view
HandleFileUpload(f) ==
    /\ ~MicrotaskPending
    /\ ui.uploadedFile = NoFile /\ ui.generatedReport = NoReport
    /\ ui' = [ui EXCEPT !.uploadedFile = f, !.generatedReport = NoReport]
    /\ UNCHANGED <<now, timers, task, budget, cacheVars, run, gen, notices, qa, server, index, pure>>

\* Index.resetApplication, the "Generate New Report" button of the report view
ResetApplication ==
    /\ ~MicrotaskPending
    /\ ui.generatedReport # NoReport
    /\ ui' = [ui EXCEPT !.uploadedFile = NoFile, !.generatedReport = NoReport,
                        !.isProcessing = FALSE]
    /\ UNCHANGED <<now, timers, task, budget, cacheVars, run, gen, notices, qa, server, index, pure>>

\* The "Generate Credit Report" button: ReportGenerator is rendered while
\* uploadedFile && !generatedReport && !isProcessing, the button is enabled
\* while !isGenerating.  handleGenerate, lines 261-304, and extractPDFText up
\* to its first await (the PDF cache lookup, pdfProcessor.ts lines 50-58).
HandleGenerate(company) ==
    /\ ~MicrotaskPending
    /\ ui.uploadedFile # NoFile /\ ui.generatedReport = NoReport
    /\ ~ui.isProcessing /\ ~ui.isGenerating
    /\ run.id < MaxRuns
    /\ LET f      == ui.uploadedFile
           key    == getPdfCacheKey(f)
           cached == getPdfFromCache(storage, key, now)
       IN  /\ ui' = [ui EXCEPT !.isGenerating = TRUE, !.isProcessing = TRUE]
           /\ timers' = timers \cup {ProcessingTimer(run.id + 1)}
           /\ storage' = StorageAfterPdfGet(storage, key, now)
           /\ lastGet' = [key |-> key, at |-> now, result |-> cached,
                          written |-> LastWrite(key)]
           /\ run' = [id |-> run.id + 1,
                      pc |-> IF cached.hit THEN "extracted" ELSE "extracting",
                      file |-> f, companyName |-> company,
                      text |-> IF cached.hit THEN cached.data ELSE NoText,
                      prev |-> IF gen.pc = "resolved"
                               THEN [key |-> gen.cacheKey, at |-> gen.at,
                                     result |-> gen.result]
                               ELSE run.prev]
    /\ gen' = NoGen
    /\ task' = [t \in Sections |-> IdleTask]
    /\ notices' = <<>>
    /\ UNCHANGED <<now, budget, wrote, qa, server, index, pure>>

\* extractPDFText finishes reading the pages: it stores the text in the PDF
\* cache and returns it (pdfProcessor.ts lines 128-140).
ExtractResolves(text, stored) ==
    /\ ~MicrotaskPending
    /\ run.pc = "extracting"
    /\ LET key == getPdfCacheKey(run.file)
           st2 == setPdfCache(storage, key, text, now, stored)
       IN  /\ storage' = st2
           /\ NoteWrite(key, st2)
    /\ run' = [run EXCEPT !.pc = "extracted", !.text = text]
    /\ IF stored THEN UNCHANGED budget ELSE budget > 0 /\ budget' = budget - 1
    /\ UNCHANGED <<now, timers, task, lastGet, ui, gen, notices, qa, server, index, pure>>

\* The catch and finally blocks of handleGenerate (lines 355-369).
GenerationFailed ==
    /\ timers' = ClearProcessingTimeout(timers, run.id)
    /\ notices' = Append(notices, "failed")
    /\ ui' = [ui EXCEPT !.isGenerating = FALSE]
    /\ run' = [run EXCEPT !.pc = "finished"]

\* extractPDFText rejects (unreadable PDF).
ExtractRejects ==
    /\ ~MicrotaskPending
    /\ run.pc = "extracting"
    /\ GenerationFailed
    /\ UNCHANGED <<now, task, budget, cacheVars, gen, qa, server, index, pure>>

\* handleGenerate after `await extractPDFText` (lines 310-333), and
\* generateEnhancedReportSections up to its first await (lines 272-290): the
\* result cache lookup, cleanText and the call of the splitter.
AfterExtract ==
    /\ run.pc = "extracted"
    /\ IF run.text.length < MinTextLength
       THEN /\ GenerationFailed
            /\ UNCHANGED <<gen, storage, lastGet>>
       ELSE LET key    == getCacheKey(run.file)
                cached == getFromCache(storage, key, now)
            IN  /\ storage' = StorageAfterGet(storage, key, now)
                /\ lastGet' = [key |-> key, at |-> now, result |-> cached,
                               written |-> LastWrite(key)]
                /\ gen' = IF cached.hit
                          THEN [pc |-> "resolved", cacheKey |-> key,
                                result |-> cached.data, error |-> NoError,
                                at |-> now, progress |-> <<100>>]
                          ELSE [pc |-> "embedding", cacheKey |-> key,
                                result |-> NoReport, error |-> NoError,
                                at |-> 0, progress |-> <<5, 10>>]
                /\ run' = [run EXCEPT !.pc = "reporting"]
                /\ UNCHANGED <<timers, ui, notices>>
    /\ UNCHANGED <<now, task, budget, wrote, qa, server, index, pure>>

\* createVectorStore resolves: the four section promises are created, each
\* running up to the embedding request of its queryRelevantChunks
\* (lines 306-320).  onProgress has been called with 0.15 (line 291), with
\* 0.3 by createVectorStore for the one batch of a document of this size
\* (line 105) and with 0.65 (line 306).
EmbeddingResolves ==
    /\ ~MicrotaskPending
    /\ gen.pc = "embedding"
    /\ gen' = [gen EXCEPT !.pc = "sections",
                           !.progress = gen.progress \o <<15, 30, 65>>]
    /\ task' = [t \in Sections |-> [IdleTask EXCEPT !.pc = "query"]]
    /\ timers' = {tm \in timers : tm.owner \notin Sections}
    /\ UNCHANGED <<now, budget, cacheVars, ui, run, notices, qa, server, index, pure>>

\* The splitter or createVectorStore rejects (embedding failure).
EmbeddingFailureIgnored ==
    /\ ~MicrotaskPending
    /\ gen.pc = "embedding"
    /\ gen' = [gen EXCEPT !.pc = "sections"]
    /\ task' = [t \in Sections |-> [IdleTask EXCEPT !.pc = "query"]]
    /\ UNCHANGED <<now, timers, budget, cacheVars, ui, run, notices, qa, server, index, pure>>
EmbeddingRejects ==
    /\ ~MicrotaskPending
    /\ gen.pc = "embedding"
    /\ gen' = [gen EXCEPT !.pc = "rejected", !.error = [kind |-> "embedding", status |-> 0]]
    /\ UNCHANGED <<now, timers, task, budget, cacheVars, ui, run, notices, qa, server, index, pure>>

\* queryRelevantChunks of a section resolves and generateSectionContent is
\* called with retryCount = 0 (lines 317-327).
QueryResolves(t) ==
    /\ ~MicrotaskPending
    /\ task[t].pc = "query"
    /\ IssueRequest(t, 0)
    /\ UNCHANGED <<now, budget, cacheVars, pageVars, qa, server, index, pure>>

\* queryRelevantChunks of a section rejects: the section promise rejects.
QueryRejects(t) ==
    /\ ~MicrotaskPending
    /\ task[t].pc = "query"
    /\ budget > 0 /\ budget' = budget - 1
    /\ task' = [task EXCEPT ![t].pc = "rejected",
                            ![t].error = [kind |-> "query", status |-> 0]]
    /\ UNCHANGED <<now, timers, cacheVars, pageVars, qa, server, index, pure>>

\* The sections object built from the results (lines 336-345).
AssembleSections(results) ==
    [kind |-> "sections",
     overview |-> results["overview"].content,
     financialHighlights |-> results["financialHighlights"].content,
     keyRisks |-> results["keyRisks"].content,
     managementCommentary |-> results["managementCommentary"].content]

\* Promise.all resolves: the report is assembled, cached and returned
\* (lines 333-355).
JoinResolves(stored) ==
    /\ gen.pc = "sections"
    /\ PromiseAllResolves
    /\ LET sections == AssembleSections(task)
           st2      == setCache(storage, gen.cacheKey, sections, now, stored)
       IN  /\ gen' = [gen EXCEPT !.pc = "resolved", !.result = sections, !.at = now,
                                  !.progress = gen.progress \o <<95, 100>>]
           /\ storage' = st2
           /\ NoteWrite(gen.cacheKey, st2)
    /\ IF stored THEN UNCHANGED budget ELSE budget > 0 /\ budget' = budget - 1
    /\ UNCHANGED <<now, timers, task, lastGet, ui, run, notices, qa, server, index, pure>>

\* Promise.all rejects with the error of the section that rejected; the
\* catch block rethrows it (lines 333, 357-360).
JoinRejects ==
    /\ gen.pc = "sections"
    /\ PromiseAllRejects
    /\ \E t \in Sections :
          /\ task[t].pc = "rejected"
          /\ gen' = [gen EXCEPT !.pc = "rejected", !.error = task[t].error]
    /\ UNCHANGED <<now, timers, task, budget, cacheVars, ui, run, notices, qa, server, index, pure>>

\* The CreditReport handleGenerate builds (lines 337-344).
CreditReport(company, sections) ==
    [kind |-> "report", companyName |-> company,
     overview |-> sections.overview,
     financialHighlights |-> sections.financialHighlights,
     keyRisks |-> sections.keyRisks,
     managementCommentary |-> sections.managementCommentary]

\* handleGenerate after `await generateEnhancedReportSections` resolved
\* (lines 335-353, 363-369) with Index.handleReportGenerated.
DeliverReport ==
    /\ run.pc = "reporting" /\ gen.pc = "resolved"
    /\ timers' = ClearProcessingTimeout(timers, run.id)
    /\ ui' = [ui EXCEPT !.generatedReport = CreditReport(run.companyName, gen.result),
                        !.isProcessing = FALSE,
                        !.isGenerating = FALSE]
    /\ notices' = Append(notices, "delivered")
    /\ run' = [run EXCEPT !.pc = "finished"]
    /\ UNCHANGED <<now, task, budget, cacheVars, gen, qa, server, index, pure>>

\* handleGenerate after `await generateEnhancedReportSections` rejected.
ReportRejected ==
    /\ run.pc = "reporting" /\ gen.pc = "rejected"
    /\ GenerationFailed
    /\ UNCHANGED <<now, task, budget, cacheVars, gen, qa, server, index, pure>>

\* The whole-run timer's callback (lines 287-294).
ProcessingTimeoutFires ==
    \E tm \in timers :
        /\ ~MicrotaskPending
        /\ tm.owner = "ui" /\ tm.kind = "processing" /\ tm.left = 0
        /\ timers' = timers \ {tm}
        /\ ui' = [ui EXCEPT !.isGenerating = FALSE]
        /\ notices' = Append(notices, "timeout")
        /\ UNCHANGED <<now, task, budget, cacheVars, run, gen, qa, server, index, pure>>

\* ------------------------------------------------- the server's report run
\* The generate-report handler (api/generate-report.js) and the server's
\* generateReportSections (server/aiProcessor.js).  The server's section
\* calls have no timer and no retry.
\* What the server's extractTextFromPDF can yield: no text, or a document.
ServerTexts == { [kind |-> "text", id |-> "", length |-> 0],
                 [kind |-> "text", id |-> "doc", length |-> 2000] }

ServerSectionContent(t) ==
    [section |-> t, doc |-> server.text.id, company |-> server.companyName]

\* The browser application of src/ calls the completion API itself and never
\* the server: its runs and the server's requests are explored one at a time.
BrowserUnused == ui = InitialPage /\ run = NoRun
ServerUnused == server = IdleServer

\* await Promise.all(sectionPromises) of the server (line 158)
ServerAllSettledResolves ==
    \A t \in Sections : server.task[t].pc \in {"resolved", "rejected"}
ServerPromiseAllResolves == \A t \in Sections : server.task[t].pc = "resolved"

ServerPromiseAllRejects == \E t \in Sections : server.task[t].pc = "rejected"

\* A continuation of the server's request is ready to run.
ServerMicrotaskPending ==
    \/ server.pc \in {"resolved", "rejected"}
    \/ server.pc = "sections" /\ (ServerPromiseAllRejects \/ ServerPromiseAllResolves)

\* res.status(s).json(body) ends the request.
ServerResponds(s, body) ==
    server' = [server EXCEPT !.pc = "idle", !.response = [status |-> s, body |-> body]]

\* handler, lines 7-36: the parameter check and the call of extractTextFromPDF.
GenerateReportHandler(filename, company, complete) ==
    /\ BrowserUnused
    /\ server.pc = "idle" /\ server.handled < MaxRuns
    /\ LET taken == [server EXCEPT !.handled = @ + 1, !.filename = filename,
                                   !.companyName = company, !.text = NoText,
                                   !.task = [t \in Sections |-> IdleServerTask],
                                   !.result = NoReport, !.error = NoError]
       IN  server' = IF complete
                     THEN [taken EXCEPT !.pc = "extracting", !.response = NoResponse]
                     ELSE [taken EXCEPT !.response = [status |-> 400, body |-> ErrorBody]]
    /\ UNCHANGED <<now, timers, task, budget, cacheVars, pageVars, qa, index, pure>>

\* extractTextFromPDF resolves (lines 36-45): empty text is thrown as an
\* error, otherwise generateReportSections runs up to createVectorStore.
ServerExtractResolves(text) ==
    /\ server.pc = "extracting"
    /\ IF text.length = 0
       THEN ServerResponds(500, ErrorBody)
       ELSE server' = [server EXCEPT !.pc = "embedding", !.text = text]
    /\ UNCHANGED <<now, timers, task, budget, cacheVars, pageVars, qa, index, pure>>

\* extractTextFromPDF rejects: the catch block answers 500 (lines 57-62).
ServerExtractRejects ==
    /\ server.pc = "extracting"
    /\ ServerResponds(500, ErrorBody)
    /\ UNCHANGED <<now, timers, task, budget, cacheVars, pageVars, qa, index, pure>>

\* createVectorStore resolves: the four section promises are created
\* (server/aiProcessor.js lines 139-156).
ServerEmbeddingResolves ==
    /\ server.pc = "embedding"
    /\ server' = [server EXCEPT !.pc = "sections",
                     !.task = [t \in Sections |-> [IdleServerTask EXCEPT !.pc = "query"]]]
    /\ UNCHANGED <<now, timers, task, budget, cacheVars, pageVars, qa, index, pure>>

\* The splitter or createVectorStore rejects: generateReportSections rethrows.
ServerEmbeddingRejects ==
    /\ server.pc = "embedding"
    /\ server' = [server EXCEPT !.pc = "rejected",
                                !.error = [kind |-> "embedding", status |-> 0]]
    /\ UNCHANGED <<now, timers, task, budget, cacheVars, pageVars, qa, index, pure>>

\* queryRelevantChunks of a section resolves and the completion is requested
\* (server/aiProcessor.js lines 153-154, 95-113).
ServerQueryResolves(t) ==
    /\ ~ServerMicrotaskPending
    /\ server.task[t].pc = "query"
    /\ server' = [server EXCEPT !.task[t].pc = "fetch", !.task[t].requests = @ + 1]
    /\ UNCHANGED <<now, timers, task, budget, cacheVars, pageVars, qa, index, pure>>

ServerQueryRejects(t) ==
    /\ ~ServerMicrotaskPending
    /\ server.task[t].pc = "query"
    /\ server' = [server EXCEPT !.task[t].pc = "rejected",
                                !.task[t].error = [kind |-> "query", status |-> 0]]
    /\ UNCHANGED <<now, timers, task, budget, cacheVars, pageVars, qa, index, pure>>

\* The continuation after `await fetch(...)` of the server's
\* generateSectionContent (lines 115-131): any failure rejects the section.
ServerFetchSettles(t, o) ==
    /\ ~ServerMicrotaskPending
    /\ server.task[t].pc = "fetch"
    /\ server' = IF o.kind = "ok"
                 THEN [server EXCEPT !.task[t].pc = "resolved",
                                     !.task[t].content = ServerSectionContent(t)]
                 ELSE [server EXCEPT !.task[t].pc = "rejected",
                                     !.task[t].error = ErrorOf(o)]
    /\ UNCHANGED <<now, timers, task, budget, cacheVars, pageVars, qa, index, pure>>

\* Promise.all resolves: the sections are reduced into one object and
\* returned with the vector store (lines 158-165).
ServerJoinResolves ==
    /\ server.pc = "sections"
    /\ ServerPromiseAllResolves
    /\ server' = [server EXCEPT !.pc = "resolved", !.result = AssembleSections(server.task)]
    /\ UNCHANGED <<now, timers, task, budget, cacheVars, pageVars, qa, index, pure>>

\* Promise.all rejects: the catch block rethrows (lines 166-169).
ServerJoinRejects ==
    /\ server.pc = "sections"
    /\ ServerPromiseAllRejects
    /\ \E t \in Sections :
          /\ server.task[t].pc = "rejected"
          /\ server' = [server EXCEPT !.pc = "rejected", !.error = server.task[t].error]
    /\ UNCHANGED <<now, timers, task, budget, cacheVars, pageVars, qa, index, pure>>

\* handler after generateReportSections resolved (lines 46-55): the vector
\* store is kept under the filename and the sections are sent.
ServerSendsReport ==
    /\ server.pc = "resolved"
    /\ server' = [server EXCEPT !.pc = "idle",
                                !.stores = @ \cup {server.filename},
                                !.response = [status |-> 200, body |-> server.result]]
    /\ UNCHANGED <<now, timers, task, budget, cacheVars, pageVars, qa, index, pure>>

\* handler after generateReportSections rejected (lines 57-62).
ServerSendsError ==
    /\ server.pc = "rejected"
    /\ ServerResponds(500, ErrorBody)
    /\ UNCHANGED <<now, timers, task, budget, cacheVars, pageVars, qa, index, pure>>

\* What the completion API answers during a report run.
ReportOutcomes == {OkOutcome, HttpOutcome(429), HttpOutcome(500)}

InitReport ==
    /\ now = 0
    /\ timers = {}
    /\ task = [t \in Sections |-> IdleTask]
    /\ budget = MaxReportFaults
    /\ storage = <<>> /\ wrote = <<>> /\ lastGet = NoGet
    /\ ui = InitialPage /\ run = NoRun /\ gen = NoGen /\ notices = <<>>
    /\ qa = IdleQa /\ server = IdleServer /\ index = IdleIndex /\ pure = NoCall

\* The steps of the browser application.
NextBrowser ==
    \/ (ServerUnused /\ \E f \in Files : HandleFileUpload(f))
    \/ ResetApplication
    \/ \E c \in Companies : HandleGenerate(c)
    \/ \E x \in ExtractedTexts, ok \in BOOLEAN : ExtractResolves(x, ok)
    \/ ExtractRejects
    \/ AfterExtract
    \/ EmbeddingResolves
    \/ EmbeddingRejects
    \/ \E t \in Sections : QueryResolves(t)
    \/ \E t \in Sections : QueryRejects(t)
    \/ \E t \in Sections, o \in ReportOutcomes : FetchSettles(t, o)
    \/ \E t \in Sections : AbortTimerFires(t)
    \/ \E t \in Sections : BackoffElapsed(t)
    \/ \E ok \in BOOLEAN : JoinResolves(ok)
    \/ JoinRejects
    \/ DeliverReport
    \/ ReportRejected
    \/ ProcessingTimeoutFires
    \/ RunTick

\* The steps of the server.
NextServer ==
    \/ \E f \in Files, c \in Companies, complete \in BOOLEAN :
            GenerateReportHandler(f.name, c, complete)
    \/ \E x \in ServerTexts : ServerExtractResolves(x)
    \/ ServerExtractRejects
    \/ ServerEmbeddingResolves
    \/ ServerEmbeddingRejects
    \/ \E t \in Sections : ServerQueryResolves(t)
    \/ \E t \in Sections : ServerQueryRejects(t)
    \/ \E t \in Sections, o \in ReportOutcomes : ServerFetchSettles(t, o)
    \/ ServerJoinResolves
    \/ ServerJoinRejects
    \/ ServerSendsReport
    \/ ServerSendsError

\* Between two runs the page can sit idle.
PageIdleTick(d) ==
    /\ run.pc = "finished"
    /\ timers = {}
    /\ CacheTick(d)

NextReport == NextBrowser \/ NextServer

SpecReport == InitReport /\ [][NextReport]_vars

\* The steps the event loop and the network take on their own: every
\* continuation that is ready runs, every request is answered, every timer
\* that is due fires.  The user's steps are not among them.
ReportProgress ==
    \/ \E x \in ExtractedTexts : ExtractResolves(x, TRUE)
    \/ AfterExtract
    \/ EmbeddingResolves
    \/ \E t \in Sections : QueryResolves(t)
    \/ \E t \in Sections : FetchSettles(t, OkOutcome)
    \/ \E t \in Sections : AbortTimerFires(t)
    \/ \E t \in Sections : BackoffElapsed(t)
    \/ JoinResolves(TRUE)
    \/ JoinRejects
    \/ DeliverReport
    \/ ReportRejected
    \/ ProcessingTimeoutFires
    \/ (Quiescent /\ RunTick)

\* The page is opened again a day after an earlier session stored a report
\* for the first file: localStorage outlives the page.  The entry is 24 h
\* old, or a minute older.
EarlierFile == CHOOSE f \in Files : f.name = "a.pdf"
EarlierReport ==
    AssembleSections([t \in Sections |->
        [content |-> [section |-> t, doc |-> "doc", company |-> "Acme"]]])
EarlierWrites == {0, MinuteMs}

InitReturn ==
    /\ now = 24 * HourMs + MinuteMs
    /\ timers = {}
    /\ task = [t \in Sections |-> IdleTask]
    /\ budget = MaxReportFaults
    /\ \E T \in EarlierWrites :
          storage = setItem(<<>>, getCacheKey(EarlierFile), EarlierReport, T)
    /\ wrote = storage /\ lastGet = NoGet
    /\ ui = InitialPage /\ run = NoRun /\ gen = NoGen /\ notices = <<>>
    /\ qa = IdleQa /\ server = IdleServer /\ index = IdleIndex /\ pure = NoCall

SpecReturn == InitReturn /\ [][NextBrowser]_vars

\* A browser whose localStorage holds, under the keys of a.pdf, items that
\* cannot be parsed: a broken text item, a null report item, or both.
UnreadableStores ==
    { [k \in {getPdfCacheKey(EarlierFile)} |-> NotJson],
      [k \in {getCacheKey(EarlierFile)} |-> JsonNull],
      [k \in {getPdfCacheKey(EarlierFile), getCacheKey(EarlierFile)} |->
          IF k = getCacheKey(EarlierFile) THEN JsonNull ELSE NotJson] }

InitUnreadable ==
    /\ now = 0 /\ timers = {}
    /\ task = [t \in Sections |-> IdleTask]
    /\ budget = MaxReportFaults
    /\ storage \in UnreadableStores
    /\ wrote = storage /\ lastGet = NoGet
    /\ ui = InitialPage /\ run = NoRun /\ gen = NoGen /\ notices = <<>>
    /\ qa = IdleQa /\ server = IdleServer /\ index = IdleIndex /\ pure = NoCall

SpecUnreadable == InitUnreadable /\ [][NextBrowser]_vars

SpecReportLive == InitReport /\ [][NextBrowser]_vars /\ WF_vars(ReportProgress)

\* ------------------------------------------- answerQuestionFromReport
\* The documents a question can be asked about.  head is
\* extractedText.slice(0, 100).replace(/\W/g, ''): two annual reports of one
\* company can begin with the same hundred characters.
QaTexts == { [kind |-> "text", id |-> "fy23", head |-> "AcmeAnnualReport", length |-> 2000],
             [kind |-> "text", id |-> "fy24", head |-> "AcmeAnnualReport", length |-> 2000],
             [kind |-> "text", id |-> "q3", head |-> "AcmeQuarterlyReport", length |-> 900] }

\* `${CACHE_PREFIX}qa_context_${companyName}_${head}`
ContextCacheKey(company, text) ==
    CACHE_PREFIX \o "qa_context_" \o company \o "_" \o text.head

\* The MemoryVectorStore createVectorStore builds from a document.
VectorStoreOf(text) == [kind |-> "vectorStore", doc |-> text.id, live |-> TRUE]

\* JSON.parse(JSON.stringify(value)): what setCache keeps of a value.  Of a
\* vector store only the data survives, not its methods.
JsonRoundTrip(value) ==
    IF value.kind = "vectorStore" THEN [value EXCEPT !.live = FALSE] ELSE value

QaAbortTimerLong(n) ==
    [owner |-> "qa", kind |-> "abort", attempt |-> n, left |-> SectionTimeoutMs]
QaAbortTimer(n) == [owner |-> "qa", kind |-> "abort", attempt |-> n, left |-> QaTimeoutMs]

\* A call begins: the given record with the per-call fields reset.
QaCall(site, company, text, pc, store) ==
    [site |-> site, pc |-> pc, asked |-> qa.asked + 1, companyName |-> company,
     text |-> text, store |-> store, requests |-> 0, resps |-> <<>>,
     sentAt |-> 0, elapsed |-> 0, answer |-> NoAnswer, error |-> NoError]

QaSettled == qa.pc \in {"idle", "resolved", "rejected"}

\* answerQuestionFromReport up to its first await (lines 370-384): the lookup
\* of the cached context; on a miss the text is split and embedded.
AnswerQuestionFromReport(company, text) ==
    /\ QaSettled /\ qa.asked < MaxQuestions
    /\ LET key    == ContextCacheKey(company, text)
           cached == getFromCache(storage, key, now)
       IN  /\ storage' = StorageAfterGet(storage, key, now)
           /\ lastGet' = [key |-> key, at |-> now, result |-> cached,
                          written |-> LastWrite(key)]
           /\ qa' = IF cached.hit
                    THEN QaCall("browser", company, text, "query", cached.data)
                    ELSE QaCall("browser", company, text, "embedding", NoStore)
    /\ UNCHANGED <<now, timers, task, budget, wrote, pageVars, server, index, pure>>

\* The server's answerQuestion is called with a vector store
\* (server/aiProcessor.js lines 172-174).
AnswerQuestion(company, text) ==
    /\ QaSettled /\ qa.asked < MaxQuestions
    /\ qa' = QaCall("server", company, text, "query", VectorStoreOf(text))
    /\ UNCHANGED <<now, timers, task, budget, cacheVars, pageVars, server, index, pure>>

\* createVectorStore resolves and the store is put in the cache (lines 380-381).
QaEmbeddingResolves(stored) ==
    /\ qa.pc = "embedding"
    /\ LET key   == ContextCacheKey(qa.companyName, qa.text)
           store == VectorStoreOf(qa.text)
           st2   == setCache(storage, key, JsonRoundTrip(store), now, stored)
       IN  /\ storage' = st2
           /\ NoteWrite(key, st2)
           /\ qa' = [qa EXCEPT !.pc = "query", !.store = store]
    /\ UNCHANGED <<now, timers, task, budget, lastGet, pageVars, server, index, pure>>

QaEmbeddingRejects ==
    /\ qa.pc = "embedding"
    /\ qa' = [qa EXCEPT !.pc = "rejected", !.error = [kind |-> "embedding", status |-> 0]]
    /\ UNCHANGED <<now, timers, task, budget, cacheVars, pageVars, server, index, pure>>

\* queryRelevantChunks resolves (vectorStore.similaritySearch exists); the
\* browser arms its 25 s abort timer; the completion is requested
\* (lines 385-422, server lines 174-205).
QaQueryResolves ==
    /\ qa.pc = "query" /\ qa.store.live
    /\ qa' = [qa EXCEPT !.pc = "fetch", !.requests = @ + 1, !.sentAt = now]
    /\ timers' = IF qa.site = "browser" THEN timers \cup {QaAbortTimer(qa.asked)}
                                         ELSE timers
    /\ UNCHANGED <<now, task, budget, cacheVars, pageVars, server, index, pure>>

\* queryRelevantChunks throws: the embedding request failed, or the store
\* came out of the cache and has no similaritySearch method.
QaQueryRejects ==
    /\ qa.pc = "query"
    /\ qa' = [qa EXCEPT !.pc = "rejected",
                        !.error = [kind |-> IF qa.store.live THEN "query" ELSE "type",
                                   status |-> 0]]
    /\ UNCHANGED <<now, timers, task, budget, cacheVars, pageVars, server, index, pure>>

ClearQaTimeout(ts, n) ==
    {tm \in ts : ~(tm.owner = "qa" /\ tm.kind = "abort" /\ tm.attempt = n)}

\* The continuation after `await fetch(...)` (lines 424-434, 440-441; server
\* lines 207-215): a response that is not ok is thrown as an error and the
\* catch block rethrows it.  When fetch itself rejects, clearTimeout is not
\* reached.
QaFetchSettles(o) ==
    /\ qa.pc = "fetch"
    /\ qa.site = "browser" =>
          \E tm \in timers : tm.owner = "qa" /\ tm.kind = "abort" /\ tm.attempt = qa.asked
    /\ timers' = IF o.kind = "network" THEN timers ELSE ClearQaTimeout(timers, qa.asked)
    /\ LET logged == [qa EXCEPT !.resps = Append(@, o), !.elapsed = now - qa.sentAt]
       IN  qa' = IF o.kind = "ok"
                 THEN [logged EXCEPT !.pc = "resolved", !.answer = QaAnswer(qa.store.doc)]
                 ELSE [logged EXCEPT !.pc = "rejected", !.error = ErrorOf(o)]
    /\ UNCHANGED <<now, task, budget, cacheVars, pageVars, server, index, pure>>

\* The 25 s timer runs controller.abort(): a pending fetch rejects with
\* AbortError and the call returns the time-out message (lines 436-438).
QaAbortTimerFires ==
    \E tm \in timers :
        /\ tm.owner = "qa" /\ tm.kind = "abort" /\ tm.left = 0
        /\ timers' = timers \ {tm}
        /\ qa' = IF qa.pc = "fetch" /\ qa.site = "browser" /\ tm.attempt = qa.asked
                 THEN [qa EXCEPT !.pc = "resolved", !.answer = QaTimeoutAnswer,
                                 !.resps = Append(@, TimeoutOutcome),
                                 !.elapsed = now - qa.sentAt]
                 ELSE qa
        /\ UNCHANGED <<now, task, budget, cacheVars, pageVars, server, index, pure>>

\* While a timer is pending time advances in steps of 10 s or to the next
\* timer; between questions by half a day.
QaTicks == {10000}
QaIdleTicks == {13 * HourMs}
QaTick(d) == timers # {} /\ Tick(d) /\ UNCHANGED budget
QaIdleTick(d) == QaSettled /\ timers = {} /\ DOMAIN storage # {} /\ CacheTick(d)

InitQA ==
    /\ now = 0
    /\ timers = {}
    /\ task = [t \in Sections |-> IdleTask]
    /\ budget = 0
    /\ storage = <<>> /\ wrote = <<>> /\ lastGet = NoGet
    /\ ui = InitialPage /\ run = NoRun /\ gen = NoGen /\ notices = <<>>
    /\ qa = IdleQa /\ server = IdleServer /\ index = IdleIndex /\ pure = NoCall

NextQA ==
    \/ \E c \in Companies, x \in QaTexts : AnswerQuestionFromReport(c, x)
    \/ \E c \in Companies, x \in QaTexts : AnswerQuestion(c, x)
    \/ \E ok \in BOOLEAN : QaEmbeddingResolves(ok)
    \/ QaEmbeddingRejects
    \/ QaQueryResolves
    \/ QaQueryRejects
    \/ \E o \in Outcomes : QaFetchSettles(o)
    \/ QaAbortTimerFires
    \/ \E d \in QaTicks \cup {NextTimerDelay} : QaTick(d)
    \/ \E d \in QaIdleTicks : QaIdleTick(d)

SpecQA == InitQA /\ [][NextQA]_vars

\* ------------------------------------------------------- createVectorStore
\* const batchSize = 25 (line 89): the batches of the loop.
LoopBatchSize == 25
\* new OpenAIEmbeddings({batchSize: 50, maxRetries: 3, ...}) (lines 80-86):
\* embedDocuments sends the texts in requests of up to 50 and repeats a
\* failed request up to 3 times.
EmbeddingBatchSize == 50
EmbeddingMaxRetriesOne == 3 - 2
EmbeddingMaxRetries == 3

Min(a, b) == IF a < b THEN a ELSE b
RECURSIVE Pow2(_)
Pow2(k) == IF k = 0 THEN 1 ELSE 2 * Pow2(k - 1)

\* Math.ceil(documents.length / batchSize)
TotalBatches(n) == (n + LoopBatchSize - 1) \div LoopBatchSize

\* documents.slice(i * batchSize, Math.min(i * batchSize + batchSize, n))
LoopBatch(n, i) ==
    [k \in 1..(Min(i * LoopBatchSize + LoopBatchSize, n) - i * LoopBatchSize)
        |-> i * LoopBatchSize + k]

\* The b-th request of embedDocuments over the texts handed to it.
EmbeddingBatch(docs, b) ==
    SubSeq(docs, b * EmbeddingBatchSize + 1,
           Min(b * EmbeddingBatchSize + EmbeddingBatchSize, Len(docs)))

\* What the embedding API answers: the vectors, or 429.
EmbeddingOutcomes == {OkOutcome, HttpOutcome(429)}
EmbeddingFailure == [kind |-> "embedding", status |-> 429]

IndexDelayTimer(i) == [owner |-> "index", kind |-> "delay", attempt |-> i, left |-> 1000]
IndexBackoffTimer(i) ==
    [owner |-> "index", kind |-> "backoff", attempt |-> i, left |-> Pow2(i) * 1000]

\* An embedding request for request batch b of the collected chunks is sent.
\* started is how many loop batches had been started by then.
EmbeddingRequest(ix, b) ==
    LET chunks == EmbeddingBatch(ix.processedDocs, b)
    IN  [batch |-> b, first |-> chunks[1], last |-> chunks[Len(chunks)],
         size |-> Len(chunks), started |-> ix.i, at |-> now]

\* MemoryVectorStore.fromDocuments(processedDocs, embeddings) (lines 114-117):
\* with no documents it resolves at once, otherwise the first request is sent.
FromDocuments(ix) ==
    IF ix.processedDocs = <<>>
    THEN [ix EXCEPT !.pc = "resolved",
                    !.returned = [kind |-> "vectorStore", vectors |-> <<>>]]
    ELSE [ix EXCEPT !.pc = "embedding", !.batch = 0, !.attempts = 1,
                    !.reqs = Append(@, EmbeddingRequest(ix, 0)),
                    !.resps = <<(<<>>)>>]

\* The head of the for loop (line 93) for the counter ix.i: the next
\* iteration begins, with its pause when i > 0 (lines 99-102), or the loop
\* is left.
LoopHead(ix) ==
    IF ix.i < TotalBatches(ix.n)
    THEN IF ix.i > 0 THEN [ix EXCEPT !.pc = "delay"] ELSE [ix EXCEPT !.pc = "body"]
    ELSE FromDocuments(ix)

LoopTimers(ix) ==
    IF ix.pc = "delay" THEN {IndexDelayTimer(ix.i)} ELSE {}

\* createVectorStore is called (lines 75-98).
CreateVectorStore(caller, call, n) ==
    /\ index.pc \in {"idle", "resolved", "rejected"}
    /\ index' = LoopHead([IdleIndex EXCEPT !.caller = caller, !.call = call, !.n = n])
    /\ UNCHANGED <<now, timers, task, budget, cacheVars, pageVars, qa, server, pure>>

\* The one-second pause of an iteration is over (lines 100-102).
IndexDelayElapsed ==
    /\ index.pc = "delay"
    /\ [IndexDelayTimer(index.i) EXCEPT !.left = 0] \in timers
    /\ timers' = timers \ {[IndexDelayTimer(index.i) EXCEPT !.left = 0]}
    /\ index' = [index EXCEPT !.pc = "body", !.delays = @ + 1]
    /\ UNCHANGED <<now, task, budget, cacheVars, pageVars, qa, server, pure>>

\* Lines 104-105: the batch is pushed and onProgress, if given, is called.
\* When the callback throws, the catch block starts its wait (lines 106-109).
IndexBody(throws) ==
    /\ index.pc = "body"
    /\ throws => index.caller = "report" /\ index.thrown < MaxCallbackThrows
    /\ LET pushed == [index EXCEPT !.processedDocs = @ \o LoopBatch(index.n, index.i)]
           next   == LoopHead([pushed EXCEPT !.i = @ + 1])
       IN  IF throws
           THEN /\ index' = [pushed EXCEPT !.pc = "backoff", !.thrown = @ + 1]
                /\ timers' = timers \cup {IndexBackoffTimer(index.i)}
           ELSE /\ index' = next
                /\ timers' = timers \cup LoopTimers(next)
    /\ UNCHANGED <<now, task, budget, cacheVars, pageVars, qa, server, pure>>

\* The catch block after its wait (line 110): the batch is pushed.
IndexBackoffElapsed ==
    /\ index.pc = "backoff"
    /\ [IndexBackoffTimer(index.i) EXCEPT !.left = 0] \in timers
    /\ LET pushed == [index EXCEPT !.processedDocs = @ \o LoopBatch(index.n, index.i)]
           next   == LoopHead([pushed EXCEPT !.i = @ + 1])
       IN  /\ index' = next
           /\ timers' = (timers \ {[IndexBackoffTimer(index.i) EXCEPT !.left = 0]})
                            \cup LoopTimers(next)
    /\ UNCHANGED <<now, task, budget, cacheVars, pageVars, qa, server, pure>>

\* An embedding request is answered.  A 429 is retried while retries remain
\* (maxRetries, line 84), then embedDocuments rejects and with it
\* fromDocuments and createVectorStore (line 114, no catch around it).  After
\* the last request batch the store is built and returned (line 119).
EmbeddingSettles(o) ==
    /\ index.pc = "embedding"
    /\ LET b      == index.batch
           logged == [index EXCEPT !.resps[b + 1] = Append(@, o)]
           done   == [logged EXCEPT
                         !.vectors = @ \o EmbeddingBatch(index.processedDocs, b),
                         !.batch = b + 1]
       IN  index' =
             IF o.kind = "ok"
             THEN IF (b + 1) * EmbeddingBatchSize < Len(index.processedDocs)
                  THEN [done EXCEPT !.attempts = 1,
                                    !.reqs = Append(@, EmbeddingRequest(index, b + 1)),
                                    !.resps = Append(@, <<>>)]
                  ELSE [done EXCEPT !.pc = "resolved",
                                    !.returned = [kind |-> "vectorStore",
                                                  vectors |-> done.vectors]]
             ELSE IF index.attempts <= EmbeddingMaxRetries
                  THEN [logged EXCEPT !.attempts = @ + 1,
                                      !.reqs = Append(@, EmbeddingRequest(index, b))]
                  ELSE [logged EXCEPT !.pc = "rejected", !.error = EmbeddingFailure]
    /\ UNCHANGED <<now, timers, task, budget, cacheVars, pageVars, qa, server, pure>>

\* While the loop waits, time advances to its timer.
IndexTick ==
    /\ index.pc \in {"delay", "backoff"}
    /\ \E tm \in timers : tm.owner = "index" /\ tm.left > 0
    /\ Tick(NextTimerDelay)
    /\ UNCHANGED budget

\* createVectorStore on its own: one call, by either caller, for any number
\* of chunks.
InitIndex ==
    /\ now = 0
    /\ timers = {}
    /\ task = [t \in Sections |-> IdleTask]
    /\ budget = 0
    /\ storage = <<>> /\ wrote = <<>> /\ lastGet = NoGet
    /\ ui = InitialPage /\ run = NoRun /\ gen = NoGen /\ notices = <<>>
    /\ qa = IdleQa /\ server = IdleServer /\ index = IdleIndex /\ pure = NoCall

NextIndex ==
    \/ (index.pc = "idle" /\ \E caller \in {"report", "qa"}, n \in 0..MaxChunks :
                                 CreateVectorStore(caller, 1, n))
    \/ IndexDelayElapsed
    \/ \E throws \in BOOLEAN : IndexBody(throws)
    \/ IndexBackoffElapsed
    \/ \E o \in EmbeddingOutcomes : EmbeddingSettles(o)
    \/ IndexTick

SpecIndex == InitIndex /\ [][NextIndex]_vars

\* ------------------------------------- the calls around createVectorStore
\* The page with its report runs and questions, each awaiting its
\* createVectorStore call (lines 295 and 380): the call goes on when the
\* index call has resolved and rejects when it has rejected.  The completion
\* API answers every request and the progress callback returns; the
\* embedding API may answer 429.  The documents have more chunks than one
\* embedding request takes.
IndexFor(caller, call) == index.caller = caller /\ index.call = call

AppChunkCounts == {MaxChunks}
AppText == [kind |-> "text", id |-> "doc", length |-> 2000]
AppQaText == [kind |-> "text", id |-> "doc", head |-> "AcmeAnnualReport", length |-> 2000]

NextApp ==
    \/ \E f \in Files : HandleFileUpload(f)
    \/ (QaSettled /\ ResetApplication)
    \/ \E c \in Companies : HandleGenerate(c)
    \/ ExtractResolves(AppText, TRUE)
    \/ AfterExtract
    \/ (/\ gen.pc = "embedding" /\ ~IndexFor("report", run.id)
        /\ \E n \in AppChunkCounts : CreateVectorStore("report", run.id, n))
    \/ (/\ qa.pc = "embedding" /\ ~IndexFor("qa", qa.asked)
        /\ \E n \in AppChunkCounts : CreateVectorStore("qa", qa.asked, n))
    \/ IndexDelayElapsed
    \/ IndexBody(FALSE)
    \/ \E o \in EmbeddingOutcomes : EmbeddingSettles(o)
    \/ IndexTick
    \/ (IndexFor("report", run.id) /\ index.pc = "resolved" /\ EmbeddingResolves)
    \/ (IndexFor("report", run.id) /\ index.pc = "rejected" /\ EmbeddingRejects)
    \/ \E t \in Sections : QueryResolves(t)
    \/ \E t \in Sections : FetchSettles(t, OkOutcome)
    \/ JoinResolves(TRUE)
    \/ DeliverReport
    \/ ReportRejected
    \/ (/\ ui.generatedReport # NoReport
        /\ AnswerQuestionFromReport(ui.generatedReport.companyName, AppQaText))
    \/ (/\ IndexFor("qa", qa.asked) /\ index.pc = "resolved"
        /\ \E ok \in BOOLEAN : QaEmbeddingResolves(ok))
    \/ (IndexFor("qa", qa.asked) /\ index.pc = "rejected" /\ QaEmbeddingRejects)
    \/ QaQueryResolves
    \/ QaQueryRejects
    \/ QaFetchSettles(OkOutcome)

SpecApp == InitReport /\ [][NextApp]_vars

\* ------------------------------------------------- the caches on their own
\* Reports and extracted texts that the cache functions are called with.
SomeReports == { [kind |-> "sections", overview |-> c, financialHighlights |-> c,
                  keyRisks |-> c, managementCommentary |-> c] : c \in {"v1", "v2"} }
SomeTexts == { [kind |-> "text", id |-> "t1", length |-> 2000],
               [kind |-> "text", id |-> "huge", length |-> 6 * 1024 * 1024] }

CallSetCache(f, data, stored) ==
    LET key == getCacheKey(f)
        st2 == setCache(storage, key, data, now, stored)
    IN  /\ storage' = st2
        /\ NoteWrite(key, st2)
        /\ UNCHANGED <<now, timers, task, budget, lastGet, pageVars, qa, server, index, pure>>

CallGetFromCache(f) ==
    LET key == getCacheKey(f)
    IN  /\ lastGet' = [key |-> key, at |-> now, result |-> getFromCache(storage, key, now),
                       written |-> LastWrite(key)]
        /\ storage' = StorageAfterGet(storage, key, now)
        /\ UNCHANGED <<now, timers, task, budget, wrote, pageVars, qa, server, index, pure>>

CallSetPdfCache(f, text, stored) ==
    LET key == getPdfCacheKey(f)
        st2 == setPdfCache(storage, key, text, now, stored)
    IN  /\ storage' = st2
        /\ NoteWrite(key, st2)
        /\ UNCHANGED <<now, timers, task, budget, lastGet, pageVars, qa, server, index, pure>>

CallGetPdfFromCache(f) ==
    LET key == getPdfCacheKey(f)
    IN  /\ lastGet' = [key |-> key, at |-> now, result |-> getPdfFromCache(storage, key, now),
                       written |-> LastWrite(key)]
        /\ storage' = StorageAfterPdfGet(storage, key, now)
        /\ UNCHANGED <<now, timers, task, budget, wrote, pageVars, qa, server, index, pure>>

\* Steps of time of half the expiry, half a minute less or more: two steps
\* make 23 h 59 min, 24 h or 24 h 01 min.
CacheTicks == {12 * HourMs - MinuteMs \div 2, 12 * HourMs + MinuteMs \div 2}

InitCache ==
    /\ now = 0
    /\ timers = {}
    /\ task = [t \in Sections |-> IdleTask]
    /\ budget = 0
    /\ storage = <<>> /\ wrote = <<>> /\ lastGet = NoGet
    /\ ui = InitialPage /\ run = NoRun /\ gen = NoGen /\ notices = <<>>
    /\ qa = IdleQa /\ server = IdleServer /\ index = IdleIndex /\ pure = NoCall

NextCache ==
    \/ \E f \in Files, d \in SomeReports, ok \in BOOLEAN : CallSetCache(f, d, ok)
    \/ \E f \in Files : CallGetFromCache(f)
    \/ \E f \in Files, x \in SomeTexts, ok \in BOOLEAN : CallSetPdfCache(f, x, ok)
    \/ \E f \in Files : CallGetPdfFromCache(f)
    \/ \E d \in CacheTicks : CacheTick(d)

SpecCache == InitCache /\ [][NextCache]_vars

\* ------------------------------------------------ repeated report requests
\* Runs that follow one another, about half a day apart, with a completion
\* API that answers every request: what a later run gets depends on the
\* caches only.  The localStorage writes may still fail (quota), which
\* setCache and setPdfCache swallow.
RepeatCompanies == {"Acme", "Apex"}

\* Two files of one name whose lastModified and size have the same digits.
RepeatFiles == { [name |-> "r.pdf", lastModified |-> 1, size |-> 1100],
                 [name |-> "r.pdf", lastModified |-> 11, size |-> 100] }

\* The user uploads a filing of the company they name: the text that
\* extraction yields for it.
RepeatText(company) == [kind |-> "text", id |-> company \o " filing", length |-> 2000]

NextRepeat ==
    \/ \E f \in RepeatFiles : HandleFileUpload(f)
    \/ ResetApplication
    \/ \E c \in RepeatCompanies : HandleGenerate(c)
    \/ \E ok \in BOOLEAN : ExtractResolves(RepeatText(run.companyName), ok)
    \/ AfterExtract
    \/ EmbeddingResolves
    \/ \E t \in Sections : QueryResolves(t)
    \/ \E t \in Sections : FetchSettles(t, OkOutcome)
    \/ \E ok \in BOOLEAN : JoinResolves(ok)
    \/ DeliverReport
    \/ \E d \in CacheTicks : PageIdleTick(d)

SpecRepeat == InitReport /\ [][NextRepeat]_vars

\* ------------------------------------------------------- progress reporting
\* A value handed to onProgress is the fraction <<numerator, denominator>>.  A zero
\* denominator is the result of a JavaScript division by zero: Infinity for 1/0.
Frac(n, d) == <<n, d>>
FracOne == Frac(1, 1)
FracLeq(p, q) == p[1] * q[2] <= q[1] * p[2]
InUnitInterval(p) == p[2] > 0 /\ 0 <= p[1] /\ p[1] <= p[2]

CHUNK_SIZE == 12000
PdfPageChunk == 10

\* chunkText: the pieces text.substring(i, i + CHUNK_SIZE), i = 0, CHUNK_SIZE, ... of a
\* text of the given length, each as the pair <<start, end>> of its offsets.
chunkTextOverlong(length) ==
    [k \in 1..((length + CHUNK_SIZE - 1) \div CHUNK_SIZE) |->
        <<(k - 1) * CHUNK_SIZE, Min(k * CHUNK_SIZE + 1, length)>>]
chunkText(length) ==
    [k \in 1..((length + CHUNK_SIZE - 1) \div CHUNK_SIZE) |->
        <<(k - 1) * CHUNK_SIZE, Min(k * CHUNK_SIZE, length)>>]

TextLengths ==
    UNION {{k * CHUNK_SIZE, k * CHUNK_SIZE + 1} : k \in 0..(MaxPieces - 1)} \cup {MaxPieces * CHUNK_SIZE}
PageCounts == 1..(PdfPageChunk * MaxPieces + 1)
DocumentCounts == 0..(LoopBatchSize * MaxPieces + 1)

Reported(p) == [pure EXCEPT !.progress = Append(@, p)]

\* generateReportSections(extractedText, ...) of src/utils/aiProcessor.ts
CallGenerateReportSections(length) ==
    /\ pure = NoCall
    /\ pure' = [fn |-> "generateReportSections", pc |-> "first", i |-> 0,
                total |-> Len(chunkText(length)), progress |-> <<>>]
    /\ UNCHANGED <<now, timers, task, budget, cacheVars, pageVars, qa, server, index>>

\* the four awaited generateSection calls on chunks[0], then onProgress(1 / totalChunks)
ReportSectionsFirst(ok) ==
    /\ pure.fn = "generateReportSections" /\ pure.pc = "first"
    /\ pure' = IF ~ok THEN [pure EXCEPT !.pc = "rejected"]
               ELSE [Reported(Frac(1, pure.total)) EXCEPT
                        !.i = 1, !.pc = IF 1 < pure.total THEN "loop" ELSE "resolved"]
    /\ UNCHANGED <<now, timers, task, budget, cacheVars, pageVars, qa, server, index>>

\* one pass of the loop over chunks[1..]: four generateSection calls, then
\* onProgress((i + 1) / totalChunks)
ReportSectionsNext(ok) ==
    /\ pure.fn = "generateReportSections" /\ pure.pc = "loop"
    /\ pure' = IF ~ok THEN [pure EXCEPT !.pc = "rejected"]
               ELSE [Reported(Frac(pure.i + 1, pure.total)) EXCEPT
                        !.i = @ + 1, !.pc = IF pure.i + 1 < pure.total THEN "loop" ELSE "resolved"]
    /\ UNCHANGED <<now, timers, task, budget, cacheVars, pageVars, qa, server, index>>

\* extractPDFText(file, onProgress): a cache hit reports 1.0 and returns
CallExtractPDFText(cached, totalPages) ==
    /\ pure = NoCall
    /\ pure' = IF cached
               THEN [fn |-> "extractPDFText", pc |-> "resolved", i |-> 0, total |-> totalPages,
                     progress |-> <<FracOne>>]
               ELSE [fn |-> "extractPDFText", pc |-> "pages", i |-> 1, total |-> totalPages,
                     progress |-> <<>>]
    /\ UNCHANGED <<now, timers, task, budget, cacheVars, pageVars, qa, server, index>>

\* pdfjsLib.getDocument(...).promise or pdf.getPage(pageNum) rejects
ExtractPDFRejects ==
    /\ pure.fn = "extractPDFText" /\ pure.pc = "pages"
    /\ pure' = [pure EXCEPT !.pc = "rejected"]
    /\ UNCHANGED <<now, timers, task, budget, cacheVars, pageVars, qa, server, index>>

\* one pass of the loop over the pages, ten at a time (i is startPage), then
\* onProgress((endPage / totalPages) * 0.9); after the loop onProgress(1.0)
ExtractPDFPages ==
    /\ pure.fn = "extractPDFText" /\ pure.pc = "pages"
    /\ pure' = IF pure.i <= pure.total
               THEN LET endPage == Min(pure.i + PdfPageChunk - 1, pure.total)
                    IN  [Reported(Frac(9 * endPage, 10 * pure.total)) EXCEPT
                            !.i = @ + PdfPageChunk]
               ELSE [Reported(FracOne) EXCEPT !.pc = "resolved"]
    /\ UNCHANGED <<now, timers, task, budget, cacheVars, pageVars, qa, server, index>>

\* generateEnhancedReportSections: a cache hit reports 1.0 and returns; otherwise 0.05,
\* 0.1 and 0.15 are reported before createVectorStore is called with the n documents
CallGenerateEnhanced(cached, n) ==
    /\ pure = NoCall
    /\ pure' = IF cached
               THEN [fn |-> "generateEnhancedReportSections", pc |-> "resolved", i |-> 0,
                     total |-> 0, progress |-> <<FracOne>>]
               ELSE [fn |-> "generateEnhancedReportSections", pc |-> "batches", i |-> 0,
                     total |-> TotalBatches(n),
                     progress |-> <<Frac(5, 100), Frac(10, 100), Frac(15, 100)>>]
    /\ UNCHANGED <<now, timers, task, budget, cacheVars, pageVars, qa, server, index>>

\* one pass of createVectorStore's loop: onProgress(0.3 + (i / totalBatches) * 0.3)
EnhancedBatch ==
    /\ pure.fn = "generateEnhancedReportSections" /\ pure.pc = "batches"
    /\ pure.i < pure.total
    /\ pure' = [Reported(Frac(3 * pure.total + 3 * pure.i, 10 * pure.total)) EXCEPT !.i = @ + 1]
    /\ UNCHANGED <<now, timers, task, budget, cacheVars, pageVars, qa, server, index>>

\* MemoryVectorStore.fromDocuments settles; on success onProgress(0.65)
EnhancedEmbedded(ok) ==
    /\ pure.fn = "generateEnhancedReportSections" /\ pure.pc = "batches"
    /\ pure.i = pure.total
    /\ pure' = IF ok THEN [Reported(Frac(65, 100)) EXCEPT !.pc = "sections"]
               ELSE [pure EXCEPT !.pc = "rejected"]
    /\ UNCHANGED <<now, timers, task, budget, cacheVars, pageVars, qa, server, index>>

\* Promise.all of the four sections settles; on success onProgress(0.95), setCache,
\* onProgress(1.0)
EnhancedSections(ok) ==
    /\ pure.fn = "generateEnhancedReportSections" /\ pure.pc = "sections"
    /\ pure' = IF ok
               THEN [pure EXCEPT !.progress = @ \o <<Frac(95, 100), FracOne>>, !.pc = "resolved"]
               ELSE [pure EXCEPT !.pc = "rejected"]
    /\ UNCHANGED <<now, timers, task, budget, cacheVars, pageVars, qa, server, index>>

\* the caller takes the settled promise
PureReturns ==
    /\ pure # NoCall /\ pure.pc \in {"resolved", "rejected"}
    /\ pure' = NoCall
    /\ UNCHANGED <<now, timers, task, budget, cacheVars, pageVars, qa, server, index>>

NextProgress ==
    \/ \E length \in TextLengths : CallGenerateReportSections(length)
    \/ \E ok \in BOOLEAN : ReportSectionsFirst(ok)
    \/ \E ok \in BOOLEAN : ReportSectionsNext(ok)
    \/ \E cached \in BOOLEAN, totalPages \in PageCounts : CallExtractPDFText(cached, totalPages)
    \/ ExtractPDFRejects
    \/ ExtractPDFPages
    \/ \E cached \in BOOLEAN, n \in DocumentCounts : CallGenerateEnhanced(cached, n)
    \/ EnhancedBatch
    \/ \E ok \in BOOLEAN : EnhancedEmbedded(ok)
    \/ \E ok \in BOOLEAN : EnhancedSections(ok)
    \/ PureReturns

SpecProgress == InitIndex /\ [][NextProgress]_vars

\* --------------------------------------------------------------------- text
\* A text is the sequence of its characters, each a one-character string.
NL == "\n"
Bullet == "*"     \* stands for the bullet character U+2022
Whitespace == {" ", NL}

Texts(alphabet, n) == UNION {[1..k -> alphabet] : k \in 0..n}

\* how many characters of s, from position i on, belong to the class
Span(s, i, class) ==
    IF i > Len(s) THEN 0
    ELSE LET stop == CHOOSE j \in i..(Len(s) + 1) :
                         /\ j = Len(s) + 1 \/ s[j] \notin class
                         /\ \A k \in i..(j - 1) : s[k] \in class
         IN  stop - i

Drop(s, n) == SubSeq(s, n + 1, Len(s))

\* String.prototype.trim, split (on one character), join, includes
trim(s) ==
    LET lead == Span(s, 1, Whitespace)
        rest == Drop(s, lead)
        last == CHOOSE k \in 0..Len(rest) :
                    /\ k = 0 \/ rest[k] \notin Whitespace
                    /\ \A j \in (k + 1)..Len(rest) : rest[j] \in Whitespace
    IN  SubSeq(rest, 1, last)

RECURSIVE SplitFrom(_, _, _)
SplitFrom(s, c, cur) ==
    IF s = <<>> THEN <<cur>>
    ELSE IF Head(s) = c THEN <<cur>> \o SplitFrom(Tail(s), c, <<>>)
    ELSE SplitFrom(Tail(s), c, Append(cur, Head(s)))

split(s, c) == SplitFrom(s, c, <<>>)

RECURSIVE join(_, _)
join(parts, sep) ==
    IF parts = <<>> THEN <<>>
    ELSE IF Len(parts) = 1 THEN parts[1]
    ELSE parts[1] \o sep \o join(Tail(parts), sep)

includes(s, c) == \E i \in 1..Len(s) : s[i] = c

RECURSIVE Flatten(_)
Flatten(seqs) == IF seqs = <<>> THEN <<>> ELSE Head(seqs) \o Flatten(Tail(seqs))

\* ------------------------------------------------------- formatBulletPoints
\* what one line of the text contributes to formattedLines
FormattedLines(line) ==
    LET trimmed == trim(line)
    IN  IF includes(trimmed, Bullet) /\ Head(trimmed) # Bullet
        THEN LET parts == split(trimmed, Bullet)
                 first == IF trim(parts[1]) # <<>> THEN <<trim(parts[1])>> ELSE <<>>
                 points == [j \in 1..(Len(parts) - 1) |->
                               IF trim(parts[j + 1]) # <<>>
                               THEN <<<<Bullet, " ">> \o trim(parts[j + 1])>> ELSE <<>>]
             IN  first \o Flatten(points)
        ELSE IF Len(trimmed) > 0 THEN <<trimmed>> ELSE <<>>

\* .replace(/([^\nB])\n(B)/g, '$1\n\n$2'), B the bullet character: a bullet that follows a
\* line of text is set off by an empty line
RECURSIVE SpaceBeforeBullet(_)
SpaceBeforeBullet(s) ==
    IF Len(s) < 3 THEN s
    ELSE IF s[1] \notin {NL, Bullet} /\ s[2] = NL /\ s[3] = Bullet
         THEN <<s[1], NL, NL, Bullet>> \o SpaceBeforeBullet(Drop(s, 3))
         ELSE <<s[1]>> \o SpaceBeforeBullet(Tail(s))

\* .replace(/\n{3,}/g, '\n\n')
RECURSIVE CollapseBlankLines(_)
CollapseBlankLines(s) ==
    IF s = <<>> THEN s
    ELSE LET n == Span(s, 1, {NL})
         IN  IF n >= 3 THEN <<NL, NL>> \o CollapseBlankLines(Drop(s, n))
             ELSE <<s[1]>> \o CollapseBlankLines(Tail(s))

formatBulletPoints(text) ==
    LET lines == split(text, NL)
        formattedLines == Flatten([k \in 1..Len(lines) |-> FormattedLines(lines[k])])
    IN  trim(CollapseBlankLines(SpaceBeforeBullet(join(formattedLines, <<NL>>))))

\* the server's post-processing of a completion
\* content.replace(/^\s*-\s*/gm, 'B '), B the bullet character
RECURSIVE DashesToBullets(_, _)
DashesToBullets(s, i) ==
    IF i > Len(s) THEN <<>>
    ELSE LET dash == i + Span(s, i, Whitespace)
         IN  IF (i = 1 \/ s[i - 1] = NL) /\ dash <= Len(s) /\ s[dash] = "-"
             THEN <<Bullet, " ">> \o DashesToBullets(s, dash + 1 + Span(s, dash + 1, Whitespace))
             ELSE <<s[i]>> \o DashesToBullets(s, i + 1)

\* content.replace(/B\s*/g, '\nB '), B the bullet character
RECURSIVE BulletsOnNewLines(_, _)
BulletsOnNewLines(s, i) ==
    IF i > Len(s) THEN <<>>
    ELSE IF s[i] = Bullet
         THEN <<NL, Bullet, " ">> \o BulletsOnNewLines(s, i + 1 + Span(s, i + 1, Whitespace))
         ELSE <<s[i]>> \o BulletsOnNewLines(s, i + 1)

PostProcess(content) ==
    IF content = <<>> THEN content
    ELSE trim(BulletsOnNewLines(DashesToBullets(content, 1), 1))

BulletAlphabet == {Bullet, "-", "a", " ", NL}
ModelOutputs == Texts(BulletAlphabet, MaxTextLen)

\* generateSectionContent reformats the completion's content
CallFormatBulletPoints(content) ==
    /\ pure = NoCall
    /\ pure' = [fn |-> "formatBulletPoints", pc |-> "resolved", arg |-> content,
                out |-> formatBulletPoints(content)]
    /\ UNCHANGED <<now, timers, task, budget, cacheVars, pageVars, qa, server, index>>

CallPostProcess(content) ==
    /\ pure = NoCall
    /\ pure' = [fn |-> "postProcess", pc |-> "resolved", arg |-> content,
                out |-> PostProcess(content)]
    /\ UNCHANGED <<now, timers, task, budget, cacheVars, pageVars, qa, server, index>>

NextBullets ==
    \/ \E content \in ModelOutputs : CallFormatBulletPoints(content)
    \/ \E content \in ModelOutputs : CallPostProcess(content)
    \/ PureReturns

SpecBullets == InitIndex /\ [][NextBullets]_vars

\* ---------------------------------------------------------------- cleanText
\* A regular expression is the sequence of its items: a character class with a
\* quantifier ("1", "+" or "*", greedy), or one of the anchors ^ and $ of the m flag.
One(class)  == [kind |-> "class", class |-> class, min |-> 1, many |-> FALSE]
Plus(class) == [kind |-> "class", class |-> class, min |-> 1, many |-> TRUE]
Star(class) == [kind |-> "class", class |-> class, min |-> 0, many |-> TRUE]
LineStart == [kind |-> "^"]
LineEnd   == [kind |-> "$"]

\* where the match of items k.. of the expression at position i of s ends (the position
\* after its last character), taking the longest repetitions first; 0 if there is none
RECURSIVE MatchEnd(_, _, _, _)
MatchEnd(s, i, re, k) ==
    IF k > Len(re) THEN i
    ELSE LET item == re[k]
         IN  CASE item.kind = "^" ->
                    IF i = 1 \/ s[i - 1] = NL THEN MatchEnd(s, i, re, k + 1) ELSE 0
               [] item.kind = "$" ->
                    IF i = Len(s) + 1 \/ s[i] = NL THEN MatchEnd(s, i, re, k + 1) ELSE 0
               [] item.kind = "class" ->
                    LET most == IF item.many THEN Span(s, i, item.class)
                                ELSE IF i <= Len(s) /\ s[i] \in item.class THEN 1 ELSE 0
                        rest == [n \in item.min..most |-> MatchEnd(s, i + n, re, k + 1)]
                        fits == {n \in item.min..most : rest[n] # 0}
                    IN  IF fits = {} THEN 0
                        ELSE rest[CHOOSE n \in fits : \A o \in fits : o <= n]

\* s.replace(re, by) with the g flag, from position i on: ends[p] is where the match
\* that starts at p ends; the leftmost match is replaced and the search goes on behind it
RECURSIVE ReplaceFrom(_, _, _, _)
ReplaceFrom(s, i, ends, by) ==
    LET starts == {p \in i..Len(s) : ends[p] > p}
    IN  IF starts = {} THEN SubSeq(s, i, Len(s))
        ELSE LET p == CHOOSE q \in starts : \A o \in starts : q <= o
             IN  SubSeq(s, i, p - 1) \o by \o ReplaceFrom(s, ends[p], ends, by)

ReplaceAll(s, i, re, by) ==
    ReplaceFrom(s, i, [p \in 1..Len(s) |-> MatchEnd(s, p, re, 1)], by)

Digits == {"0", "1", "2", "3", "4", "5", "6", "7", "8", "9"}
UpperCase == {"A", "B", "C", "D", "E", "F", "G", "H", "I", "J", "K", "L", "M", "N", "O", "P", "Q",
              "R", "S", "T", "U", "V", "W", "X", "Y", "Z"}
Backslash == "\\"

\* /Page\s+\d+\s+of\s+\d+/gi
PageNumberRe ==
    <<One({"P", "p"}), One({"A", "a"}), One({"G", "g"}), One({"E", "e"}), Plus(Whitespace),
      Plus(Digits), Plus(Whitespace), One({"O", "o"}), One({"F", "f"}), Plus(Whitespace),
      Plus(Digits)>>
\* /^\s*[A-Z\s]+\s*$/gm
HeaderLineRe ==
    <<LineStart, Star(Whitespace), Plus(UpperCase \cup Whitespace), Star(Whitespace), LineEnd>>
\* /\s+/g and /\n+/g
SpacesRe == <<Plus(Whitespace)>>
NewlinesRe == <<Plus({NL})>>

\* cleanText of src/utils/enhancedAiProcessor.ts and of src/utils/aiProcessor.ts
cleanText(text) ==
    LET noPages == ReplaceAll(text, 1, PageNumberRe, <<>>)
        noHeaders == ReplaceAll(noPages, 1, HeaderLineRe, <<>>)
        spaced == ReplaceAll(noHeaders, 1, SpacesRe, <<" ">>)
    IN  trim(ReplaceAll(spaced, 1, NewlinesRe, <<NL>>))

\* The server's expressions are written with doubled backslashes: in a regular expression
\* literal \\ is a backslash character, so \\s+ is a backslash followed by letters s.
\* /Page\\s+\\d+\\s+of\\s+\\d+/gi
ServerPageNumberRe ==
    <<One({"P", "p"}), One({"A", "a"}), One({"G", "g"}), One({"E", "e"}),
      One({Backslash}), Plus({"s", "S"}), One({Backslash}), Plus({"d", "D"}),
      One({Backslash}), Plus({"s", "S"}), One({"O", "o"}), One({"F", "f"}),
      One({Backslash}), Plus({"s", "S"}), One({Backslash}), Plus({"d", "D"})>>
\* /^\\s*[A-Z\\s]+\\s*$/gm
ServerHeaderLineRe ==
    <<LineStart, One({Backslash}), Star({"s"}), Plus(UpperCase \cup {Backslash, "s"}),
      One({Backslash}), Star({"s"}), LineEnd>>
\* /\\s+/g and /\\n+/g, the latter replaced by '\\n', a backslash and an n
ServerSpacesRe == <<One({Backslash}), Plus({"s"})>>
ServerNewlinesRe == <<One({Backslash}), Plus({"n"})>>

ServerCleanText(text) ==
    LET noPages == ReplaceAll(text, 1, ServerPageNumberRe, <<>>)
        noHeaders == ReplaceAll(noPages, 1, ServerHeaderLineRe, <<>>)
        spaced == ReplaceAll(noHeaders, 1, ServerSpacesRe, <<" ">>)
    IN  trim(ReplaceAll(spaced, 1, ServerNewlinesRe, <<Backslash, "n">>))

\* the extracted texts: up to MaxSegments of these pieces, one after the other
Segments ==
    { <<"P", "a", "g", "e", " ", "1", " ", "o", "f">>,
      <<"P", "a", "g", "e", " ", "1", " ", "o", "f", " ", "1">>,
      <<" ", "1">>, <<NL, "A", "B", NL>>, <<"a">>, <<" ">>, <<NL>>, <<Backslash, "s">> }

RECURSIVE Concatenations(_)
Concatenations(n) ==
    IF n = 0 THEN {<<>>}
    ELSE LET shorter == Concatenations(n - 1)
         IN  shorter \cup {t \o g : t \in shorter, g \in Segments}

RawTexts == Concatenations(MaxSegments)

CallCleanText(text) ==
    /\ pure = NoCall
    /\ pure' = [fn |-> "cleanText", pc |-> "resolved", arg |-> text, out |-> cleanText(text),
                normalized |-> FALSE]
    /\ UNCHANGED <<now, timers, task, budget, cacheVars, pageVars, qa, server, index>>

CallServerCleanText(text) ==
    /\ pure = NoCall
    /\ pure' = [fn |-> "serverCleanText", pc |-> "resolved", arg |-> text,
                out |-> ServerCleanText(text), normalized |-> FALSE]
    /\ UNCHANGED <<now, timers, task, budget, cacheVars, pageVars, qa, server, index>>

\* the output of a call is cleaned again by the same function
CleanAgain ==
    /\ pure.fn \in {"cleanText", "serverCleanText"} /\ ~pure.normalized
    /\ pure' = [pure EXCEPT !.arg = pure.out, !.normalized = TRUE,
                            !.out = IF pure.fn = "cleanText" THEN cleanText(pure.out)
                                    ELSE ServerCleanText(pure.out)]
    /\ UNCHANGED <<now, timers, task, budget, cacheVars, pageVars, qa, server, index>>

NextClean ==
    \/ \E text \in RawTexts : CallCleanText(text)
    \/ \E text \in RawTexts : CallServerCleanText(text)
    \/ CleanAgain
    \/ PureReturns

SpecClean == InitIndex /\ [][NextClean]_vars

\* ----------------------------------------------------------------- chunking
\* RecursiveCharacterTextSplitter of the langchain package, as configured by
\* splitTextIntoSemanticChunks: keepSeparator is its default, true.
MatchesAt(s, i, sep) ==
    /\ i + Len(sep) - 1 <= Len(s)
    /\ \A j \in 1..Len(sep) : s[i + j - 1] = sep[j]

\* text.split(/(?=separator)/), or text.split("") for the empty separator, without the
\* empty pieces: a piece starts at the start of the text and wherever the separator starts
splitOnSeparator(text, separator) ==
    IF separator = <<>> THEN [i \in 1..Len(text) |-> <<text[i]>>]
    ELSE LET starts == {1} \cup {i \in 2..Len(text) : MatchesAt(text, i, separator)}
             ends(a) == IF \E b \in starts : b > a
                        THEN (CHOOSE b \in starts : b > a /\ \A c \in starts : c > a => b <= c) - 1
                        ELSE Len(text)
             nth(k) == CHOOSE a \in starts : Cardinality({b \in starts : b < a}) = k - 1
         IN  IF text = <<>> THEN <<>>
             ELSE [k \in 1..Cardinality(starts) |-> SubSeq(text, nth(k), ends(nth(k)))]

\* joinDocs(docs, ""): the pieces joined and trimmed, nothing if that is empty
joinDocs(docs) ==
    LET text == trim(Flatten(docs)) IN IF text = <<>> THEN <<>> ELSE <<text>>

\* the while loop of mergeSplits that drops pieces from the front of currentDoc
RECURSIVE PopFront(_, _, _, _, _)
PopFront(currentDoc, total, len, chunkSize, chunkOverlap) ==
    IF total > chunkOverlap \/ (total + len > chunkSize /\ total > 0)
    THEN PopFront(Tail(currentDoc), total - Len(Head(currentDoc)), len, chunkSize, chunkOverlap)
    ELSE [currentDoc |-> currentDoc, total |-> total]

\* mergeSplits(splits, ""), from split k on
RECURSIVE MergeFrom(_, _, _, _, _, _, _)
MergeFrom(splits, k, docs, currentDoc, total, chunkSize, chunkOverlap) ==
    IF k > Len(splits) THEN docs \o joinDocs(currentDoc)
    ELSE LET d == splits[k]
             full == total + Len(d) > chunkSize
             kept == IF full /\ currentDoc # <<>>
                     THEN PopFront(currentDoc, total, Len(d), chunkSize, chunkOverlap)
                     ELSE [currentDoc |-> currentDoc, total |-> total]
         IN  MergeFrom(splits, k + 1,
                       IF full /\ currentDoc # <<>> THEN docs \o joinDocs(currentDoc) ELSE docs,
                       Append(kept.currentDoc, d), kept.total + Len(d), chunkSize, chunkOverlap)

mergeSplits(splits, chunkSize, chunkOverlap) ==
    MergeFrom(splits, 1, <<>>, <<>>, 0, chunkSize, chunkOverlap)

\* _splitText(text, separators): the first separator that is empty or occurs in the text
\* splits it; pieces shorter than chunkSize are merged, a longer one is split by the
\* separators that follow, or kept as it is when none follows
RECURSIVE splitText(_, _, _, _)
RECURSIVE SplitLoop(_, _, _, _, _, _, _)
SplitLoop(splits, k, goodSplits, finalChunks, newSeparators, chunkSize, chunkOverlap) ==
    IF k > Len(splits)
    THEN finalChunks \o mergeSplits(goodSplits, chunkSize, chunkOverlap)
    ELSE LET s == splits[k]
         IN  IF Len(s) < chunkSize
             THEN SplitLoop(splits, k + 1, Append(goodSplits, s), finalChunks, newSeparators,
                            chunkSize, chunkOverlap)
             ELSE SplitLoop(splits, k + 1, <<>>,
                            finalChunks \o mergeSplits(goodSplits, chunkSize, chunkOverlap)
                                \o (IF newSeparators = <<>> THEN <<s>>
                                    ELSE splitText(s, newSeparators, chunkSize, chunkOverlap)),
                            newSeparators, chunkSize, chunkOverlap)

splitText(text, separators, chunkSize, chunkOverlap) ==
    LET found == {i \in 1..Len(separators) :
                     separators[i] = <<>> \/ \E p \in 1..Len(text) : MatchesAt(text, p, separators[i])}
        first == CHOOSE i \in found : \A j \in found : i <= j
        separator == IF found = {} THEN separators[Len(separators)] ELSE separators[first]
        newSeparators == IF found = {} \/ separator = <<>> THEN <<>>
                         ELSE SubSeq(separators, first + 1, Len(separators))
    IN  SplitLoop(splitOnSeparator(text, separator), 1, <<>>, <<>>, newSeparators,
                  chunkSize, chunkOverlap)

\* separators: ['\n\n', '\n', '. ', '! ', '? ', '; ', ': ', ' ', '']
SemanticSeparators ==
    <<(<<NL, NL>>), (<<NL>>), (<<".", " ">>), (<<"!", " ">>), (<<"?", " ">>), (<<";", " ">>),
      (<<":", " ">>), (<<" ">>), (<<>>)>>
SemanticChunkSize == 1200
SemanticChunkOverlap == 150

\* chunks.map((chunk, index) => new Document({pageContent, metadata: {id, length}}))
Documents(chunks) ==
    [k \in 1..Len(chunks) |->
        [pageContent |-> chunks[k], id |-> "chunk_" \o ToString(k - 1),
         length |-> Len(chunks[k])]]

splitTextIntoSemanticChunks(text) ==
    Documents(splitText(text, SemanticSeparators, SemanticChunkSize, SemanticChunkOverlap))

\* --------------------------------------------------- documents of page furniture
\* Uploads whose extracted text is page furniture only (headings in capitals, page
\* numbers), a short scan, and a document with sentences.  The text of a run is the text
\* of its file; the number of documents handed to createVectorStore is the number of
\* chunks of the cleaned text.
RECURSIVE Repeat(_, _)
Repeat(s, n) == IF n = 0 THEN <<>> ELSE s \o Repeat(s, n - 1)

RECURSIVE StringOf(_)
StringOf(s) ==
    IF s = <<>> THEN ""
    ELSE IF Len(s) = 1 THEN s[1]
    ELSE StringOf(SubSeq(s, 1, Len(s) \div 2)) \o StringOf(SubSeq(s, Len(s) \div 2 + 1, Len(s)))

\* extractedText.slice(0, 100).replace(/\W/g, '')
WordCharacters ==
    Digits \cup UpperCase \cup {"_", "a", "e", "f", "g", "l", "o", "p", "s", "u"}
ContextHead(chars) ==
    StringOf(SelectSeq(SubSeq(chars, 1, Min(100, Len(chars))), LAMBDA c : c \in WordCharacters))

HeadingLine == <<"A", "N", "N", "U", "A", "L", NL>>
FooterLine  == <<"P", "a", "g", "e", " ", "1", " ", "o", "f", " ", "9", NL>>
BodyLine    == <<"S", "a", "l", "e", "s", " ", "u", "p", ".", NL>>

ScannedFiles == { [name |-> "covers.pdf", lastModified |-> 1, size |-> 100],
                  [name |-> "footers.pdf", lastModified |-> 2, size |-> 200],
                  [name |-> "scan.pdf", lastModified |-> 3, size |-> 300],
                  [name |-> "report.pdf", lastModified |-> 4, size |-> 400] }

ScannedChars(file) ==
    CASE file.name = "covers.pdf"  -> Repeat(HeadingLine, 15)
      [] file.name = "footers.pdf" -> Repeat(FooterLine, 9)
      [] file.name = "scan.pdf"    -> Repeat(HeadingLine, 5)
      [] OTHER                     -> Repeat(BodyLine, 12)

ScannedText(file) ==
    LET chars == trim(ScannedChars(file))
    IN  [kind |-> "text", id |-> file.name, head |-> ContextHead(chars),
         length |-> Len(chars), chars |-> chars]

DocumentCount(text) == Len(splitTextIntoSemanticChunks(cleanText(text.chars)))

NextScanned ==
    \/ \E f \in ScannedFiles : HandleFileUpload(f)
    \/ (QaSettled /\ ResetApplication)
    \/ \E c \in Companies : HandleGenerate(c)
    \/ ExtractResolves(ScannedText(run.file), TRUE)
    \/ AfterExtract
    \/ (/\ gen.pc = "embedding" /\ ~IndexFor("report", run.id)
        /\ CreateVectorStore("report", run.id, DocumentCount(run.text)))
    \/ (/\ qa.pc = "embedding" /\ ~IndexFor("qa", qa.asked)
        /\ CreateVectorStore("qa", qa.asked, DocumentCount(qa.text)))
    \/ IndexBody(FALSE)
    \/ EmbeddingSettles(OkOutcome)
    \/ (IndexFor("report", run.id) /\ index.pc = "resolved" /\ EmbeddingResolves)
    \/ \E t \in Sections : QueryResolves(t)
    \/ \E t \in Sections : FetchSettles(t, OkOutcome)
    \/ JoinResolves(TRUE)
    \/ DeliverReport
    \/ (/\ ui.generatedReport # NoReport /\ run.pc = "finished"
        /\ AnswerQuestionFromReport(ui.generatedReport.companyName, run.text))
    \/ (/\ IndexFor("qa", qa.asked) /\ index.pc = "resolved"
        /\ \E ok \in BOOLEAN : QaEmbeddingResolves(ok))
    \/ QaQueryResolves
    \/ QaQueryRejects
    \/ QaFetchSettles(OkOutcome)

SpecScanned == InitReport /\ [][NextScanned]_vars

\* the chunkers on their own
Run(c, n) == [i \in 1..n |-> c]

\* short texts for splitters configured with small sizes, and texts of long sentences
\* and long words for the configuration of splitTextIntoSemanticChunks (of the long
\* texts those with a space in them: a text with no separator is split between all of
\* its characters)
ShortPieces ==
    { <<"a", "a">>, <<"a", "a", "a">>, <<" ", "a", "a">>, <<".", " ", "a">>, <<" ">>,
      <<"a", "a", "a", "a", "a", "a", "a">> }
LongPieces ==
    { <<"T">> \o Run("a", 649) \o <<".", " ">>, <<"w">> \o Run("a", 649) \o <<" ">>,
      <<"v">> \o Run("a", 199) \o <<" ">>, <<"S", "a", "l", "e", "s", " ", "u", "p", ".", " ">> }

RECURSIVE PiecedTexts(_, _)
PiecedTexts(pieces, n) ==
    IF n = 0 THEN {<<>>}
    ELSE LET shorter == PiecedTexts(pieces, n - 1)
         IN  shorter \cup {t \o g : t \in shorter, g \in pieces}

SmallConfigurations ==
    {c \in [chunkSize : 3..(MaxTextLen + 1), chunkOverlap : 0..1] : c.chunkOverlap < c.chunkSize}

CallChunkText(length) ==
    /\ pure = NoCall
    /\ pure' = [fn |-> "chunkText", pc |-> "resolved", arg |-> length,
                chunkSize |-> CHUNK_SIZE, chunkOverlap |-> 0, out |-> chunkText(length)]
    /\ UNCHANGED <<now, timers, task, budget, cacheVars, pageVars, qa, server, index>>

\* new RecursiveCharacterTextSplitter({chunkSize, chunkOverlap, separators}) and
\* splitter.splitText(text), with other sizes than those of the source
CallSplitter(text, c) ==
    /\ pure = NoCall
    /\ pure' = [fn |-> "splitter", pc |-> "resolved", arg |-> text,
                chunkSize |-> c.chunkSize, chunkOverlap |-> c.chunkOverlap,
                out |-> Documents(splitText(text, SemanticSeparators, c.chunkSize, c.chunkOverlap))]
    /\ UNCHANGED <<now, timers, task, budget, cacheVars, pageVars, qa, server, index>>

CallSplitTextIntoSemanticChunks(text) ==
    /\ pure = NoCall
    /\ pure' = [fn |-> "splitTextIntoSemanticChunks", pc |-> "resolved", arg |-> text,
                chunkSize |-> SemanticChunkSize, chunkOverlap |-> SemanticChunkOverlap,
                out |-> splitTextIntoSemanticChunks(text)]
    /\ UNCHANGED <<now, timers, task, budget, cacheVars, pageVars, qa, server, index>>

ShortTexts == {trim(t) : t \in PiecedTexts(ShortPieces, MaxSegments)}
LongTexts ==
    {t \in {trim(u) : u \in PiecedTexts(LongPieces, MaxSegments)} : t = <<>> \/ includes(t, " ")}

NextChunks ==
    \/ \E length \in TextLengths : CallChunkText(length)
    \/ \E text \in ShortTexts, c \in SmallConfigurations : CallSplitter(text, c)
    \/ \E text \in LongTexts : CallSplitTextIntoSemanticChunks(text)
    \/ PureReturns

SpecChunks == InitIndex /\ [][NextChunks]_vars

\* ---------------------------------------------------------------- retrieval
\* vectorStore.similaritySearch(query, k) of MemoryVectorStore (langchain package): the
\* similarity of the query embedding to every stored vector, sorted from the highest
\* down, the first k.  similarities[i] is the similarity of the chunk with ordinal i - 1;
\* the sort keeps chunks of equal similarity in their stored order.
RECURSIVE RankFrom(_, _, _)
RankFrom(similarities, k, taken) ==
    LET left == (1..Len(similarities)) \ taken
    IN  IF k = 0 \/ left = {} THEN <<>>
        ELSE LET best == CHOOSE i \in left :
                            \A j \in left : \/ similarities[i] > similarities[j]
                                            \/ similarities[i] = similarities[j] /\ i <= j
             IN  <<best>> \o RankFrom(similarities, k - 1, taken \cup {best})

similaritySearch(similarities, k) == RankFrom(similarities, k, {})

\* limit = 4 by default (the report sections); the questions pass 3
DefaultLimit == 4
QuestionLimit == 3
Limits == {1, QuestionLimit, DefaultLimit}
Similarities == 0..2
VectorStores ==
    UNION {[1..n -> Similarities] : n \in 0..MaxVectors}

\* queryRelevantChunks(vectorStore, query, limit): a store that came out of the cache is
\* a plain object and the call of its similaritySearch throws a TypeError
queryRelevantChunks(store, limit, asked, first) ==
    IF store.live
    THEN [fn |-> "queryRelevantChunks", pc |-> "resolved", store |-> store, limit |-> limit,
          asked |-> asked, first |-> first, error |-> "",
          out |-> similaritySearch(store.similarities, limit)]
    ELSE [fn |-> "queryRelevantChunks", pc |-> "rejected", store |-> store, limit |-> limit,
          asked |-> asked, first |-> first, error |-> "type", out |-> <<>>]

\* the first query on a store that createVectorStore has just built
CallQueryRelevantChunks(similarities, limit) ==
    /\ pure = NoCall
    /\ pure' = queryRelevantChunks([kind |-> "vectorStore", live |-> TRUE,
                                    similarities |-> similarities], limit, 1, <<>>)
    /\ UNCHANGED <<now, timers, task, budget, cacheVars, pageVars, qa, server, index>>

\* the same query once more: answerQuestionFromReport takes the store from the cache
\* when its entry is there (cached), and builds it again otherwise
QueryAgain(cached) ==
    /\ pure # NoCall /\ pure.fn = "queryRelevantChunks" /\ pure.pc = "resolved"
    /\ pure.asked < MaxQuestions
    /\ cached => pure.limit = QuestionLimit
    /\ pure' = queryRelevantChunks(IF cached THEN JsonRoundTrip(pure.store) ELSE pure.store,
                                   pure.limit, pure.asked + 1,
                                   IF pure.asked = 1 THEN pure.out ELSE pure.first)
    /\ UNCHANGED <<now, timers, task, budget, cacheVars, pageVars, qa, server, index>>

NextRetrieval ==
    \/ \E similarities \in VectorStores, limit \in Limits :
          CallQueryRelevantChunks(similarities, limit)
    \/ \E cached \in BOOLEAN : QueryAgain(cached)
    \/ PureReturns

SpecRetrieval == InitIndex /\ [][NextRetrieval]_vars

\* ------------------------------------------------------- request validation
\* What is typed into the form, and what a request to the server carries: a field that
\* is not given is undefined.
Given(chars) == [given |-> TRUE, chars |-> chars]
NotGiven == [given |-> FALSE, chars |-> <<>>]
AcmeChars == <<"A", "c", "m", "e">>
KeyChars == <<"s", "k">>
FileNameChars == <<"a", ".", "p", "d", "f">>
FormInputs(chars) == {<<>>, <<" ">>, chars}
RequestInputs(chars) == {NotGiven} \cup {Given(c) : c \in FormInputs(chars)}

\* !value of a string or undefined
Not(value) == ~value.given \/ value.chars = <<>>

\* handleGenerate of ReportGenerator from its start (part_001 lines 261-304, and the same
\* checks in part_002 lines 24-44): a company name or an API key that is empty after
\* trim() shows a toast and returns; the toast takes the place of what the page showed
HandleGenerateClicked(companyName, apiKey) ==
    IF trim(companyName) = <<>> \/ trim(apiKey) = <<>>
    THEN /\ ~MicrotaskPending
         /\ ui.uploadedFile # NoFile /\ ui.generatedReport = NoReport
         /\ ~ui.isProcessing /\ ~ui.isGenerating
         /\ notices' = <<(IF trim(companyName) = <<>> THEN "Company name required"
                                                     ELSE "API key required")>>
         /\ UNCHANGED <<now, timers, task, budget, cacheVars, ui, run, gen, qa, server, index,
                        pure>>
    ELSE HandleGenerate(StringOf(companyName))

\* handler of api/generate-report.js from its start: filename, companyName and fileBuffer
\* of the request body and the API key of the environment (lines 22-29)
Handler(req) ==
    GenerateReportHandler(StringOf(req.filename.chars), StringOf(req.companyName.chars),
                          ~(Not(req.filename) \/ Not(req.companyName) \/ Not(req.apiKey)
                                \/ Not(req.fileBuffer)))

HandlerRequests ==
    [filename : RequestInputs(FileNameChars), companyName : RequestInputs(AcmeChars),
     apiKey : RequestInputs(KeyChars), fileBuffer : RequestInputs(<<"J", "V">>)]

NextValidate ==
    \/ NextReport
    \/ \E companyName \in FormInputs(AcmeChars), apiKey \in FormInputs(KeyChars) :
          HandleGenerateClicked(companyName, apiKey)
    \/ \E req \in HandlerRequests : Handler(req)

SpecValidate == InitReport /\ [][NextValidate]_vars

\* ------------------------------------------------------- the section promises
\* sectionTypes.map(async (sectionType) => {...; return { sectionType, content }}): what
\* the promise of a section resolves with.  The closure reads sectionType, the query of
\* its section, companyName, apiKey and the vector store, and writes nothing.
SectionResultShared(sectionType, doc, companyName) ==
    [sectionType |-> sectionTypes[Len(sectionTypes)],
     content |-> [section |-> sectionType, doc |-> doc, company |-> companyName]]
SectionResult(sectionType, doc, companyName) ==
    [sectionType |-> sectionType,
     content |-> [section |-> sectionType, doc |-> doc, company |-> companyName]]

\* await Promise.all(sectionPromises): the values in the order of the promises, promise
\* i being the one of sectionTypes[i]
sectionResults(settled) ==
    [i \in 1..Len(sectionTypes) |->
        (CHOOSE r \in {settled[k] : k \in 1..Len(settled)} : r.promise = i).value]

\* for (const { sectionType, content } of sectionResults) sections[sectionType] = content,
\* and the reduce of the server, from result k on
RECURSIVE AssignSections(_, _, _)
AssignSections(sections, results, k) ==
    IF k > Len(results) THEN sections
    ELSE AssignSections([t \in (DOMAIN sections) \cup {results[k].sectionType} |->
                            IF t = results[k].sectionType THEN results[k].content
                            ELSE sections[t]],
                        results, k + 1)

\* const sections = {overview: '', ...} in the browser, {} on the server
InitialSections(site) ==
    IF site = "browser" THEN [t \in Sections |-> NoContent] ELSE <<>>

SectionDocs == {"doc", "other"}

\* the four promises are created (lines 316-331, server lines 152-156)
CallSectionPromises(site, doc, companyName) ==
    /\ pure = NoCall
    /\ pure' = [fn |-> "sectionPromises", pc |-> "pending", site |-> site, doc |-> doc,
                companyName |-> companyName, settled |-> <<>>, out |-> <<>>]
    /\ UNCHANGED <<now, timers, task, budget, cacheVars, pageVars, qa, server, index>>

\* the completion of a section arrives and its promise resolves
SectionPromiseResolves(sectionType) ==
    /\ pure # NoCall /\ pure.fn = "sectionPromises" /\ pure.pc = "pending"
    /\ \A k \in 1..Len(pure.settled) : sectionTypes[pure.settled[k].promise] # sectionType
    /\ pure' = [pure EXCEPT !.settled =
                   Append(@, [promise |-> CHOOSE i \in 1..Len(sectionTypes) :
                                             sectionTypes[i] = sectionType,
                              value |-> SectionResult(sectionType, pure.doc,
                                                      pure.companyName)])]
    /\ UNCHANGED <<now, timers, task, budget, cacheVars, pageVars, qa, server, index>>

\* Promise.all resolves and the report is put together (lines 333-346, server 158-165)
SectionsAssembled ==
    /\ pure # NoCall /\ pure.fn = "sectionPromises" /\ pure.pc = "pending"
    /\ Len(pure.settled) = Len(sectionTypes)
    /\ pure' = [pure EXCEPT !.pc = "resolved",
                            !.out = AssignSections(InitialSections(pure.site),
                                                   sectionResults(pure.settled), 1)]
    /\ UNCHANGED <<now, timers, task, budget, cacheVars, pageVars, qa, server, index>>

NextSections ==
    \/ \E site \in {"browser", "server"}, doc \in SectionDocs, companyName \in Companies :
          CallSectionPromises(site, doc, companyName)
    \/ \E sectionType \in Sections : SectionPromiseResolves(sectionType)
    \/ SectionsAssembled
    \/ PureReturns

SpecSections == InitIndex /\ [][NextSections]_vars

\* ------------------------------------------------------ the ask-question handler
\* The second module of api/generate-report.js (lines 65-103) declares a vectorStoreCache
\* of its own (line 68); nothing in that module puts a store into it.  handler: the
\* lookup of the store (lines 91-94) and the call of answerQuestion (line 97).
AskQuestionHandler(filename, company) ==
    /\ BrowserUnused
    /\ server.pc = "idle" /\ QaSettled /\ qa.asked < MaxQuestions
    /\ IF filename \in DOMAIN server.askStores
       THEN /\ qa' = QaCall("server", company, NoQaText, "query", server.askStores[filename])
            /\ server' = [server EXCEPT !.response = NoResponse]
       ELSE /\ ServerResponds(404, ErrorBody)
            /\ UNCHANGED qa
    /\ UNCHANGED <<now, timers, task, budget, cacheVars, pageVars, index, pure>>

NextAsk ==
    \/ NextServer
    \/ \E f \in Files, c \in Companies : AskQuestionHandler(f.name, c)

SpecAsk == InitReport /\ [][NextAsk]_vars

\* ------------------------------------------------------------------ claims
AllResps(t, o) ==
    /\ task[t].resps # <<>>
    /\ \A i \in 1..Len(task[t].resps) : task[t].resps[i] = o

Last(s) == s[Len(s)]

\* C1: when every request is answered 429, exactly 4 requests are sent, the
\* waits before the retries are 2 s, 4 s, 8 s, and only then is the call
\* rejected; a 2xx answer to any of those requests resolves the call with
\* no error.
C1_RateLimitBackoff ==
    \A t \in Sections :
        /\ (AllResps(t, HttpOutcome(429)) /\ task[t].pc = "rejected")
              => /\ task[t].requests = 4
                 /\ Len(task[t].resps) = 4
                 /\ task[t].waits = <<2000, 4000, 8000>>
                 /\ task[t].error = [kind |-> "http", status |-> 429]
        /\ (AllResps(t, HttpOutcome(429)) /\ task[t].pc = "backoff")
              => /\ Len(task[t].resps) <= 3
                 /\ task[t].waits = SubSeq(<<2000, 4000, 8000>>, 1, Len(task[t].resps))
        /\ ( /\ task[t].resps # <<>>
             /\ Last(task[t].resps) = OkOutcome
             /\ \A i \in 1..(Len(task[t].resps) - 1) : task[t].resps[i] = HttpOutcome(429) )
              => /\ task[t].pc = "resolved"
                 /\ task[t].error = NoError
                 /\ task[t].requests <= 4

C1_Witness ==
    /\ task["overview"].pc = "rejected"
    /\ task["overview"].resps = <<HttpOutcome(429), HttpOutcome(429), HttpOutcome(429), HttpOutcome(429)>>

\* C2: when every request is answered with the same non-2xx status s other
\* than 429, exactly 3 requests are sent, 1 s apart, and the error that
\* reaches the caller carries s.
C2_OtherStatusRetries ==
    \A t \in Sections : \A s \in ErrorStatuses \ {429} :
        /\ (AllResps(t, HttpOutcome(s)) /\ task[t].pc = "rejected")
              => /\ task[t].requests = 3
                 /\ Len(task[t].resps) = 3
                 /\ task[t].waits = <<1000, 1000>>
                 /\ task[t].error = [kind |-> "http", status |-> s]
        /\ (AllResps(t, HttpOutcome(s)) /\ task[t].pc = "fetch")
              => task[t].slept = 1000

C2_Witness ==
    /\ task["overview"].pc = "rejected"
    /\ task["overview"].resps = <<HttpOutcome(503), HttpOutcome(503), HttpOutcome(503)>>

\* C4: in both caches an entry written at time T is a hit (returning what was
\* written) for a read at t with t - T < 24 h, and a miss for a read at t
\* with t - T > 24 h, whatever reads and writes came before.
C4_CacheTtl ==
    lastGet.written # NeverWritten =>
        LET T == lastGet.written.timestamp
        IN  /\ lastGet.at - T < 24 * 60 * 60 * 1000
                => lastGet.result = Hit(lastGet.written.data)
            /\ lastGet.at - T > 24 * 60 * 60 * 1000
                => lastGet.result = Miss

\* a read of a key 24 h 01 min after its last write missed (and evicted it)
C4_Witness ==
    /\ lastGet.written # NeverWritten
    /\ lastGet.at - lastGet.written.timestamp = 24 * 60 * 60 * 1000 + 60 * 1000
    /\ lastGet.result = Miss
    /\ lastGet.key \notin DOMAIN storage

\* C8: a request unanswered after 30 s is aborted and the call fails with
\* the timeout error; an attempt's timer is cleared when that attempt
\* settles, so the only armed abort timer is the one of the request in
\* flight, armed when that request was sent.
C8_RequestTimeout ==
    \A t \in Sections :
        /\ task[t].pc = "fetch"
              => /\ now - task[t].sentAt <= 30000
                 /\ AbortTimer(t, task[t].requests, 30000 - (now - task[t].sentAt)) \in timers
        /\ \A tm \in timers :
              (tm.owner = t /\ tm.kind = "abort")
                 => task[t].pc = "fetch" /\ tm.attempt = task[t].requests
        /\ (task[t].resps # <<>> /\ Last(task[t].resps) = TimeoutOutcome)
              => /\ task[t].pc = "rejected"
                 /\ task[t].error = TimeoutError
                 /\ task[t].elapsed = 30000

C8_Witness ==
    /\ task["overview"].pc = "rejected"
    /\ task["overview"].error = TimeoutError
    /\ task["overview"].requests = 2

\* C9 (as claimed): a timed-out attempt is retried, so a call is never
\* rejected for a timeout of its first attempt.
C9_TimeoutIsRetried ==
    \A t \in Sections :
        ~(task[t].pc = "rejected" /\ task[t].resps = <<TimeoutOutcome>>)

\* C9 (amended): a timed-out attempt is never retried: the call is rejected
\* with the timeout error at once, whatever retries remain, and no request
\* follows the timeout.
C9_TimeoutNotRetried ==
    \A t \in Sections : \A i \in 1..Len(task[t].resps) :
        task[t].resps[i] = TimeoutOutcome
            => /\ i = Len(task[t].resps)
               /\ task[t].requests = i
               /\ task[t].pc = "rejected"
               /\ task[t].error = TimeoutError

C9_Witness ==
    /\ task["overview"].pc = "rejected"
    /\ task["overview"].resps = <<TimeoutOutcome>>
    /\ task["overview"].retryCount < MaxGenericRetries

\* A sections object in which every one of the four sections was generated.
CompleteSections(s) ==
    /\ s.kind \in {"sections", "report"}
    /\ \A t \in Sections : s[t] # NoContent

\* C3: report generation is all-or-nothing, in the browser and on the
\* server: the call resolves only when all four section calls resolved (or,
\* in the browser, with a cached earlier result), and then with all four
\* generated sections; once a section call has rejected the call never
\* resolves; nothing returned, delivered, sent or cached lacks a section.
C3_AllOrNothing ==
    /\ gen.pc = "resolved" =>
          /\ CompleteSections(gen.result)
          /\ \/ /\ \A t \in Sections : task[t].pc = "resolved"
                /\ gen.result = AssembleSections(task)
             \/ /\ \A t \in Sections : task[t].pc = "idle"
                /\ lastGet.result = Hit(gen.result)
    /\ (\E t \in Sections : task[t].pc = "rejected") => gen.pc \in {"sections", "rejected"}
    /\ \A k \in DOMAIN storage :
          storage[k].data.kind = "sections" => CompleteSections(storage[k].data)
    /\ ui.generatedReport # NoReport => CompleteSections(ui.generatedReport)
    /\ server.pc = "resolved" =>
          /\ \A t \in Sections : server.task[t].pc = "resolved"
          /\ server.result = AssembleSections(server.task)
          /\ CompleteSections(server.result)
    /\ (\E t \in Sections : server.task[t].pc = "rejected") =>
          server.pc \in {"sections", "rejected", "idle"} /\ server.response.status # 200
    /\ server.response.status = 200 => CompleteSections(server.response.body)

\* three sections were generated and one failed: the call rejected, and
\* nothing was delivered or cached
C3_Witness ==
    /\ gen.pc = "rejected"
    /\ run.pc = "finished"
    /\ Cardinality({t \in Sections : task[t].pc = "resolved"}) = 3
    /\ Cardinality({t \in Sections : task[t].pc = "rejected"}) = 1
    /\ ui.generatedReport = NoReport
    /\ getCacheKey(run.file) \notin DOMAIN storage

TimedOut == \E i \in 1..Len(notices) : notices[i] = "timeout"

\* C5 (as claimed): a handleGenerate run shows the user exactly one terminal
\* outcome: never more than one of the delivered report, the failure notice
\* and the timeout notice, and exactly one once the run has finished.
C5_OneTerminalOutcome ==
    /\ Len(notices) <= 1
    /\ run.pc = "finished" => Len(notices) = 1

\* No call of the run to an external service is pending.
NothingInFlight ==
    /\ run.pc # "extracting"
    /\ gen.pc # "embedding"
    /\ \A t \in Sections : task[t].pc \notin {"query", "fetch"}

\* C6 (as claimed): once the 8-minute timer of a run has expired, no call of
\* the run is in flight, and from then on the run issues no request, delivers
\* no report and writes nothing to the cache.
C6_TimeoutStopsRun ==
    [][ (TimedOut /\ run'.id = run.id) =>
            /\ NothingInFlight
            /\ \A t \in Sections : task'[t].requests = task[t].requests
            /\ ui'.generatedReport = ui.generatedReport
            /\ storage' = storage ]_vars

GenPending == gen.pc \in {"embedding", "sections"}
GenSettled == gen.pc \in {"resolved", "rejected"}

\* C7: provided every request is answered or aborted, a call of
\* generateEnhancedReportSections that has begun its work resolves or
\* rejects; and when a section call has rejected, the very next thing that
\* happens is the rejection of the whole call, whatever the other section
\* calls are doing.
C7_CallSettlesFailFast ==
    /\ GenPending ~> GenSettled
    /\ [][ (gen.pc = "sections" /\ \E t \in Sections : task[t].pc = "rejected")
              => gen'.pc = "rejected" ]_vars

\* the call has rejected while another section call is still under way
C7_Witness ==
    /\ gen.pc = "rejected"
    /\ \E t \in Sections : task[t].pc = "rejected"
    /\ \E t \in Sections : task[t].pc \in {"query", "fetch", "backoff"}

\* C10 (as claimed): the Q&A call retries like a section call, so it rejects
\* with the error of a non-2xx response only after four requests (429) or
\* three (any other status).
C10_QaRetryPolicy ==
    (qa.pc = "rejected" /\ qa.error.kind = "http") =>
        qa.requests = (IF qa.error.status = 429 THEN 4 ELSE 3)

\* C11: in the browser a Q&A completion request is pending for at most 25 s,
\* its abort timer counting down from the moment it was sent; when the timer
\* aborts it the call resolves with the time-out message, and only then; a
\* non-2xx status, a network error, an unreadable body and a failed index
\* build or lookup reject the call.
C11_QaTimeoutMessage ==
    qa.site = "browser" =>
        /\ qa.pc = "fetch" =>
              /\ now - qa.sentAt <= 25000
              /\ [owner |-> "qa", kind |-> "abort", attempt |-> qa.asked,
                  left |-> 25000 - (now - qa.sentAt)] \in timers
        /\ \A i \in 1..Len(qa.resps) :
              /\ qa.resps[i] = TimeoutOutcome =>
                    /\ qa.pc = "resolved" /\ qa.answer = QaTimeoutAnswer
                    /\ qa.elapsed = 25000 /\ qa.error = NoError
              /\ qa.resps[i].kind \in {"http", "network", "malformed"} =>
                    qa.pc = "rejected" /\ qa.error = ErrorOf(qa.resps[i])
        /\ qa.answer = QaTimeoutAnswer => qa.resps = <<TimeoutOutcome>>
        /\ qa.error.kind \in {"embedding", "query", "type"} =>
              qa.pc = "rejected" /\ qa.requests = 0
        /\ qa.pc = "resolved" => qa.resps \in {<<OkOutcome>>, <<TimeoutOutcome>>}

\* a question whose completion request went unanswered for 25 s got the
\* time-out message as its answer
C11_Witness ==
    /\ qa.site = "browser" /\ qa.pc = "resolved"
    /\ qa.answer = QaTimeoutAnswer
    /\ now - qa.sentAt = 25000

ReportKeys == {getCacheKey(f) : f \in Files}
ReportCache(st) == [k \in (DOMAIN st) \cap ReportKeys |-> st[k]]

\* C13 (as stated), for a page opened a day after a report was stored: the
\* report cache changes only in the step in which a
\* run that completed all four sections stores them; every other step of a
\* run, failing or still in flight, leaves the report cache unchanged.
C13_OnlySuccessChangesCache ==
    [][ReportCache(storage') # ReportCache(storage)
           => /\ gen.pc = "sections" /\ gen'.pc = "resolved"
              /\ \A t \in Sections : task[t].pc = "resolved"]_vars

\* C13 (amended): an entry of the report cache is created or replaced only
\* in the step in which the run for that file, all four of its sections
\* resolved, stores the sections assembled from them; the only other change
\* to the report cache is that the lookup at the start of a run for a file
\* removes that file's entry when it is older than 24 h.
C13_EntryOnlyAfterSuccess ==
    [][\A k \in ReportKeys :
          /\ (k \in DOMAIN storage' /\ (k \notin DOMAIN storage \/ storage'[k] # storage[k]))
                => /\ gen.pc = "sections" /\ gen'.pc = "resolved"
                   /\ k = gen.cacheKey /\ k = getCacheKey(run.file)
                   /\ \A t \in Sections : /\ task[t].pc = "resolved"
                                           /\ task[t].content = SectionContent(t)
                   /\ storage'[k] = [data |-> AssembleSections(task), timestamp |-> now]
          /\ (k \in DOMAIN storage /\ k \notin DOMAIN storage')
                => /\ run.pc = "extracted" /\ run'.pc = "reporting"
                   /\ k = getCacheKey(run.file)
                   /\ now - storage[k].timestamp > CACHE_EXPIRY
                   /\ gen'.pc = "embedding"]_vars

\* A run whose index building failed has finished, more than a day after an
\* earlier session stored a report for the same file: the old entry is gone
\* and no new one was made.
C13_Witness ==
    /\ run.pc = "finished" /\ gen.pc = "rejected"
    /\ gen.error.kind = "embedding"
    /\ gen.cacheKey \in DOMAIN wrote
    /\ gen.cacheKey \notin DOMAIN storage

\* C14: eviction is lazy and per key.  A step removes an entry only if it is
\* a get of that entry's key, the entry is older than 24 h, the get returns
\* a miss and nothing else in the store changes; a get of a key whose entry
\* is not older than 24 h returns its data and leaves the store as it was,
\* timestamps included, and so does a get of a key that has no entry.
C14_LazyEviction ==
    [][/\ \A k \in DOMAIN storage :
             k \notin DOMAIN storage'
                => /\ lastGet'.key = k /\ lastGet'.at = now
                   /\ lastGet'.result = Miss
                   /\ now - storage[k].timestamp > 24 * HourMs
                   /\ storage' = [j \in (DOMAIN storage) \ {k} |-> storage[j]]
       /\ lastGet' # lastGet
             => LET k == lastGet'.key
                IN  IF k \in DOMAIN storage /\ now - storage[k].timestamp > 24 * HourMs
                    THEN /\ lastGet'.result = Miss
                         /\ storage' = [j \in (DOMAIN storage) \ {k} |-> storage[j]]
                    ELSE /\ storage' = storage
                         /\ lastGet'.result = IF k \in DOMAIN storage
                                              THEN Hit(storage[k].data) ELSE Miss]_vars

\* A get evicted its own expired entry while another entry, just as old,
\* stays in the store.
C14_Witness ==
    /\ lastGet.result = Miss
    /\ lastGet.key \in DOMAIN wrote
    /\ lastGet.key \notin DOMAIN storage
    /\ \E k \in DOMAIN storage : lastGet.at - storage[k].timestamp > 24 * HourMs

\* Files whose names, modification times and sizes differ only in where
\* the digits and underscores stand.
SimilarFiles ==
    [name : {"r.pdf", "r_1.pdf"}, lastModified : {1, 11}, size : {100, 1100}]
SameTriple(f, g) ==
    f.name = g.name /\ f.lastModified = g.lastModified /\ f.size = g.size

\* C15: the cache keys are functions of exactly (name, lastModified, size).
\* A file whose triple differs from that of the run's file has another key,
\* in the report cache and in the PDF cache; a run uses the key of its own
\* file, and when the entry under it is a hit the run resolves with the
\* report stored there, whatever company name and text this run has.
C15_KeyIsTriple ==
    /\ LET key    == getCacheKey(run.file)
           pdfKey == getPdfCacheKey(run.file)
       IN  \A g \in SimilarFiles \cup RepeatFiles :
              /\ key = getCacheKey(g) <=> SameTriple(run.file, g)
              /\ pdfKey = getPdfCacheKey(g) <=> SameTriple(run.file, g)
    /\ gen.pc # "idle" => gen.cacheKey = getCacheKey(run.file)
    /\ (run.pc = "reporting" /\ lastGet.key = getCacheKey(run.file) /\ lastGet.result.hit)
          => /\ gen.pc = "resolved"
             /\ gen.result = lastGet.written.data

\* The second run has another company name and another text than the
\* first, the same file triple, and resolves with the first run's report.
C15_Witness ==
    /\ run.id = 2 /\ run.pc = "reporting" /\ gen.pc = "resolved"
    /\ lastGet.key = getCacheKey(run.file) /\ lastGet.result.hit
    /\ gen.result.overview.company # run.companyName
    /\ gen.result.overview.doc # run.text.id

\* C16 (as claimed): a vector store that answerQuestionFromReport reads
\* back from the cache (same company name and text head, within 24 h) is
\* the store a fresh build for the text would give, and the question is
\* answered with it: the call does not fail on the store.
C16_CachedIndexUsable ==
    (/\ qa.site = "browser" /\ qa.pc # "idle"
     /\ lastGet.key = ContextCacheKey(qa.companyName, qa.text)
     /\ lastGet.result.hit)
    => /\ lastGet.result.data = VectorStoreOf(qa.text)
       /\ qa.store = VectorStoreOf(qa.text)
       /\ qa.error.kind # "type"

RequestsFor(b) == Cardinality({k \in 1..Len(index.reqs) : index.reqs[k].batch = b})
Rejected429x4 == <<HttpOutcome(429), HttpOutcome(429), HttpOutcome(429), HttpOutcome(429)>>

\* C18: during index building a request batch that is answered 429 twice and
\* then with the vectors is done after exactly 3 requests and the build goes
\* on; a request batch answered 429 every time is given up after the
\* retries (4 requests) and the build fails with an embedding failure,
\* returning no store.  No batch gets a request after its vectors arrived.
C18_EmbeddingRetries ==
    /\ \A b \in 1..Len(index.resps) :
          LET r == index.resps[b]
          IN  /\ Len(r) <= 4
              /\ \A k \in 1..(Len(r) - 1) : r[k] = HttpOutcome(429)
              /\ RequestsFor(b - 1) =
                    Len(r) + (IF index.pc = "embedding" /\ b = index.batch + 1 THEN 1 ELSE 0)
              /\ r = <<HttpOutcome(429), HttpOutcome(429), OkOutcome>>
                    => /\ RequestsFor(b - 1) = 3
                       /\ index.batch >= b
                       /\ Len(index.vectors) >= Min(b * 50, Len(index.processedDocs))
                       /\ index.pc = "rejected" => b < Len(index.resps)
              /\ r = Rejected429x4
                    => /\ index.pc = "rejected" /\ index.error = EmbeddingFailure
                       /\ index.returned = NoIndexStore
                       /\ b = Len(index.resps)
    /\ index.pc = "resolved"
          => /\ \A b \in 1..Len(index.resps) : Last(index.resps[b]) = OkOutcome
             /\ index.returned = [kind |-> "vectorStore", vectors |-> index.processedDocs]
    /\ index.pc = "rejected"
          => Last(index.resps) = Rejected429x4

\* the first request batch was answered 429 twice, then with the vectors,
\* and the store was built
C18_Witness ==
    /\ index.pc = "resolved"
    /\ Len(index.resps) >= 1
    /\ index.resps[1] = <<HttpOutcome(429), HttpOutcome(429), OkOutcome>>
    /\ RequestsFor(0) = 3

\* C19 (as claimed): the batches of 25 are embedded one at a time in batch
\* order.  Every embedding request carries chunks of one batch only and is
\* sent before any later batch was started, and when the loop is done it has
\* paused for one second totalBatches - 1 times.
C19_BatchesOneAtATime ==
    /\ \A k \in 1..Len(index.reqs) :
          LET r == index.reqs[k]
          IN  /\ (r.first - 1) \div 25 = (r.last - 1) \div 25
              /\ r.started <= (r.first - 1) \div 25 + 1
    /\ (index.pc \in {"embedding", "resolved", "rejected"} /\ index.n > 0)
          => index.delays = TotalBatches(index.n) - 1

\* C20 (as claimed): whatever the number of chunks and whatever path the
\* loop took, the sequence handed to fromDocuments is the document's chunks,
\* each once and in order, and so are the vectors of the store returned.
C20_EveryChunkOnce ==
    /\ index.pc \in {"embedding", "resolved", "rejected"}
          => index.processedDocs = [k \in 1..index.n |-> k]
    /\ index.pc = "resolved"
          => index.returned.vectors = [k \in 1..index.n |-> k]

\* C17: when the embedding requests of a createVectorStore call have failed
\* after their retries, the call has rejected and returned no store; the
\* report call or Q&A call awaiting it has no store, has sent no completion
\* request and has cached nothing, and once it has settled it has rejected
\* with the embedding failure (the run ends with the failure notice and
\* without a report).
C17_EmbeddingFailureRejects ==
    /\ (index.pc = "rejected" \/ (Len(index.resps) > 0 /\ Last(index.resps) = Rejected429x4))
          => /\ index.pc = "rejected" /\ index.error = EmbeddingFailure
             /\ index.returned = NoIndexStore
    /\ (IndexFor("report", run.id) /\ index.pc = "rejected")
          => /\ gen.pc \in {"embedding", "rejected"}
             /\ gen.pc = "rejected" => gen.error.kind = "embedding"
             /\ gen.result = NoReport
             /\ \A t \in Sections : task[t] = IdleTask
             /\ gen.cacheKey \notin DOMAIN storage
             /\ run.pc = "finished"
                   => ui.generatedReport = NoReport /\ notices = <<"failed">>
    /\ (IndexFor("qa", qa.asked) /\ index.pc = "rejected")
          => /\ qa.pc \in {"embedding", "rejected"}
             /\ qa.pc = "rejected" => qa.error.kind = "embedding"
             /\ qa.store = NoStore /\ qa.requests = 0 /\ qa.answer = NoAnswer
             /\ ContextCacheKey(qa.companyName, qa.text) \notin DOMAIN storage
    /\ gen.error.kind = "embedding"
          => gen.pc = "rejected" /\ \A t \in Sections : task[t] = IdleTask
    /\ qa.error.kind = "embedding" => qa.pc = "rejected" /\ qa.requests = 0

\* a report run has ended with the failure notice after the embedding of
\* its 51 chunks failed in the second request batch
C17_Witness ==
    /\ run.pc = "finished" /\ gen.pc = "rejected" /\ gen.error.kind = "embedding"
    /\ IndexFor("report", run.id) /\ index.pc = "rejected"
    /\ index.batch = 1 /\ Len(index.vectors) = 50

\* C21: during one call of generateEnhancedReportSections, generateReportSections or
\* extractPDFText every value passed to the progress callback lies in [0, 1] and is
\* greater than or equal to the value passed before it, for every input.
ProgressInOrder(p) ==
    \A k \in 1..Len(p) : InUnitInterval(p[k]) /\ (k > 1 => FracLeq(p[k - 1], p[k]))

C21_ProgressMonotoneInUnit ==
    pure.fn \in {"generateEnhancedReportSections", "generateReportSections", "extractPDFText"}
        => ProgressInOrder(pure.progress)

\* C22: in the result of the bullet-reformatting pass (formatBulletPoints, and the
\* server's post-processing) every bullet marker is the first character of its line.
BulletsStartLines(s) == \A i \in 1..Len(s) : s[i] = Bullet => (i = 1 \/ s[i - 1] = NL)

C22_BulletsStartLines ==
    pure.fn \in {"formatBulletPoints", "postProcess"} => BulletsStartLines(pure.out)

\* C23: normalization is idempotent: cleanText applied to the output of cleanText
\* returns that output unchanged, for every input text.
C23_CleanTextIdempotent ==
    (pure.fn \in {"cleanText", "serverCleanText"} /\ pure.normalized) => pure.out = pure.arg

\* C24: the output of cleanText, on the client and on the server, has no leading or
\* trailing whitespace and no two consecutive whitespace characters.
SingleSpaced(s) ==
    /\ s # <<>> => s[1] \notin Whitespace /\ s[Len(s)] \notin Whitespace
    /\ \A i \in 1..(Len(s) - 1) : ~(s[i] \in Whitespace /\ s[i + 1] \in Whitespace)

C24_CleanTextSingleSpaced ==
    pure.fn \in {"cleanText", "serverCleanText"} => SingleSpaced(pure.out)

\* C25: when the cleaned text of a document is empty, the report call and the Q&A call
\* on it fail before any embedding or completion request is issued, and no report is
\* produced.
CleansToNothing(text) == text # NoText /\ cleanText(text.chars) = <<>>

C25_EmptyTextFails ==
    /\ (run.pc \in {"reporting", "finished"} /\ CleansToNothing(run.text))
          => /\ gen.pc \in {"idle", "embedding", "rejected"}
             /\ \A t \in Sections : task[t] = IdleTask
             /\ ui.generatedReport = NoReport
    /\ (qa.pc # "idle" /\ CleansToNothing(qa.text))
          => qa.pc \in {"embedding", "rejected"} /\ qa.requests = 0

\* C26: every chunk the chunkers produce (splitTextIntoSemanticChunks, a splitter with
\* the same separators and another size, chunkText) is non-empty and no longer than the
\* target size.
ChunkLength(chunk) ==
    IF pure.fn = "chunkText" THEN chunk[2] - chunk[1] ELSE Len(chunk.pageContent)

C26_ChunksWithinSize ==
    pure.fn \in {"chunkText", "splitter", "splitTextIntoSemanticChunks"}
        => \A k \in 1..Len(pure.out) :
              ChunkLength(pure.out[k]) >= 1 /\ ChunkLength(pure.out[k]) <= pure.chunkSize

\* a word longer than the target size was split between characters; a text of 12001
\* characters was cut into a full chunk and a chunk of one character
C26_Witness ==
    \/ /\ pure.fn = "splitter" /\ Len(pure.arg) > pure.chunkSize
       /\ \A i \in 1..Len(pure.arg) : pure.arg[i] = "a"
       /\ Len(pure.out) >= 2
    \/ /\ pure.fn = "chunkText" /\ pure.arg = CHUNK_SIZE + 1
       /\ pure.out = <<(<<0, CHUNK_SIZE>>), (<<CHUNK_SIZE, CHUNK_SIZE + 1>>)>>

\* C27: for a text of length len the chunker returns at most
\* ceil(len / (targetSize - overlap)) chunks, with the ids chunk_0, chunk_1, ... in the
\* order of the text, and the chunks cover the text: each chunk is a span of the text that
\* starts no later than the character after the previous chunk's end, the first at the
\* start and the last up to the end of the text, so that no character is lost.
RECURSIVE CoveredFrom(_, _, _, _, _)
CoveredFrom(text, docs, k, from, covered) ==
    IF k > Len(docs) THEN covered = Len(text)
    ELSE \E p \in from..(covered + 1) :
            /\ MatchesAt(text, p, docs[k].pageContent)
            /\ CoveredFrom(text, docs, k + 1, p,
                           IF p + docs[k].length - 1 > covered THEN p + docs[k].length - 1
                           ELSE covered)

CeilDiv(a, b) == (a + b - 1) \div b

C27_ChunksCoverText ==
    /\ pure.fn = "chunkText"
          => /\ Len(pure.out) <= CeilDiv(pure.arg, pure.chunkSize - pure.chunkOverlap)
             /\ \A k \in 1..Len(pure.out) :
                   pure.out[k][1] = (IF k = 1 THEN 0 ELSE pure.out[k - 1][2])
             /\ pure.arg = (IF pure.out = <<>> THEN 0 ELSE pure.out[Len(pure.out)][2])
    /\ pure.fn \in {"splitter", "splitTextIntoSemanticChunks"}
          => /\ Len(pure.out) <= CeilDiv(Len(pure.arg), pure.chunkSize - pure.chunkOverlap)
             /\ \A k \in 1..Len(pure.out) : pure.out[k].id = "chunk_" \o ToString(k - 1)
             /\ CoveredFrom(pure.arg, pure.out, 1, 1, 0)


\* C28: a query on an index of n chunks with limit K >= 1 returns exactly min(K, n)
\* chunks: distinct ordinals, each chunk returned at least as similar as every chunk left
\* out, a chunk of equal similarity being preferred when its ordinal is lower, and listed
\* from the most similar down; so an empty index gives the empty list and no error, a
\* non-empty index a non-empty list, and the same query asked again gives the same ids.
C28_RetrievalTopK ==
    (pure.fn = "queryRelevantChunks" /\ pure.pc \in {"resolved", "rejected"})
        => LET similarities == pure.store.similarities
               n == Len(similarities)
               returned == {pure.out[k] : k \in 1..Len(pure.out)}
           IN  /\ pure.pc = "resolved"
               /\ Len(pure.out) = Min(pure.limit, n)
               /\ Cardinality(returned) = Len(pure.out)
               /\ returned \subseteq 1..n
               /\ \A i \in returned, j \in (1..n) \ returned :
                     \/ similarities[i] > similarities[j]
                     \/ similarities[i] = similarities[j] /\ i < j
               /\ \A k \in 1..(Len(pure.out) - 1) :
                     \/ similarities[pure.out[k]] > similarities[pure.out[k + 1]]
                     \/ /\ similarities[pure.out[k]] = similarities[pure.out[k + 1]]
                        /\ pure.out[k] < pure.out[k + 1]
               /\ pure.asked > 1 => pure.out = pure.first


\* C29: a report generation request whose company name, credential or document is
\* missing or blank (empty, or white space only) is rejected with a validation error (in
\* the browser the toast, on the server the answer 400), and in that step nothing is
\* started and nothing stored: no extraction, no embedding and no completion request, and
\* the cache and the stored indexes are as before.
Blank(value) == ~value.given \/ trim(value.chars) = <<>>

C29_BlankRequestRejected ==
    [][/\ \A companyName \in FormInputs(AcmeChars), apiKey \in FormInputs(KeyChars) :
             ((trim(companyName) = <<>> \/ trim(apiKey) = <<>>)
                  /\ HandleGenerateClicked(companyName, apiKey))
                 => /\ notices' \in {<<"Company name required">>, <<"API key required">>}
                    /\ UNCHANGED <<timers, task, cacheVars, ui, run, gen, qa, server, index>>
       /\ \A req \in HandlerRequests :
             ((Blank(req.companyName) \/ Blank(req.apiKey) \/ Blank(req.fileBuffer))
                  /\ Handler(req))
                 => /\ server'.pc = "idle" /\ server'.response.status = 400
                    /\ server'.stores = server.stores
                    /\ \A t \in Sections : server'.task[t].requests = 0
                    /\ UNCHANGED <<timers, task, cacheVars, pageVars, qa, index>>]_vars


\* C30: in whatever order the four completions of a report run arrive, the assembled
\* report holds under the key of each section the text that was completed for that
\* section, so it is the same report for every order of arrival.
C30_SectionsOrderIndependent ==
    (pure.fn = "sectionPromises" /\ pure.pc = "resolved")
        => pure.out = [t \in Sections |->
                          [section |-> t, doc |-> pure.doc, company |-> pure.companyName]]

C30_Witness ==
    /\ pure.fn = "sectionPromises" /\ pure.pc = "resolved"
    /\ pure.settled[1].promise = Len(sectionTypes)
    /\ pure.settled[Len(sectionTypes)].promise = 1


\* C31: on the server an ask-question request for a filename whose generate-report
\* request has succeeded finds the vector store kept for that filename and is handed to
\* answerQuestion (it is not answered 404); an ask-question request for a filename with
\* no successful report is answered 404 and no question is put to the model.
C31_AskFindsStore ==
    [][\A f \in Files, c \in Companies :
          AskQuestionHandler(f.name, c)
              => IF f.name \in server.stores
                 THEN server'.response.status # 404 /\ qa'.pc = "query" /\ qa'.store.live
                 ELSE server'.response.status = 404 /\ qa' = qa]_vars


\* C32: whatever the completion API answers (429, other statuses, network errors,
\* malformed bodies, in any mix), one generateSectionContent call issues at most 4
\* requests, and at most 3 when no answer is a 429; the retries of both kinds count on
\* the one retryCount, which is the number of requests issued before the present one;
\* after each answer the call waits for a retry, has returned content or has thrown, and
\* after the last request that the counter allows it has returned or thrown.
RateLimited(resps) == \E k \in 1..Len(resps) : resps[k] = HttpOutcome(429)

C32_AtMostFourRequests ==
    \A t \in Sections :
        LET call == task[t]
            last == IF RateLimited(call.resps) THEN MaxRateLimitRetries + 1
                                                ELSE MaxGenericRetries + 1
        IN  /\ call.requests <= 4
            /\ ~RateLimited(call.resps) => call.requests <= 3
            /\ call.requests > 0 => call.retryCount = call.requests - 1
            /\ call.pc \in {"idle", "call", "fetch", "backoff", "resolved", "rejected"}
            /\ call.pc = "fetch" <=> Len(call.resps) < call.requests
            /\ Len(call.resps) >= last => call.pc \in {"resolved", "rejected"}
            /\ call.pc = "resolved" => call.content # NoContent /\ call.error = NoError
            /\ call.pc = "rejected" => call.error # NoError /\ call.content = NoContent

C32_Witness ==
    LET call == task["overview"]
    IN  /\ call.requests = 4 /\ call.pc = "rejected"
        /\ call.resps[1] = HttpOutcome(500) /\ call.resps[2] = NetworkOutcome
        /\ call.resps[3] = HttpOutcome(429) /\ call.resps[4] = MalformedOutcome


\* C33: every report generation that was started leaves the processing state again,
\* whether it succeeds or fails: whenever the page's isProcessing flag is set it is
\* cleared later, so the page does not stay on the 'Processing Your Report' view.
C33_LeavesProcessing == ui.isProcessing ~> ~ui.isProcessing


\* C34: when a section has failed and the report call has rejected, the requests of the
\* other sections are cancelled: from then on no section call of that run issues a
\* completion request or makes a retry.
C34_SiblingsCancelled ==
    [][gen.pc = "rejected" /\ gen'.pc = "rejected"
          => \A t \in Sections : /\ task'[t].requests = task[t].requests
                                 /\ task'[t].retryCount = task[t].retryCount]_vars

\* C35: a cache failure never fails the operation it serves.  A read that
\* finds an item it cannot parse is a miss, nothing unparsed reaches the
\* caller, and the text or the report is then computed anew; a text or a
\* report whose setItem threw, so that localStorage does not hold it, is
\* still the computed one and is returned.
Readable(st, key) == key \in DOMAIN st /\ st[key] \notin Unreadable
C35_CacheFailureHarmless ==
    /\ lastGet.written \in Unreadable => lastGet.result = Miss
    /\ run.text \notin Unreadable /\ gen.result \notin Unreadable
    /\ ui.generatedReport \notin Unreadable
    /\ run.pc = "extracted" /\ ~Readable(storage, getPdfCacheKey(run.file))
          => run.text \in ExtractedTexts
    /\ gen.pc = "resolved" /\ ~Readable(storage, gen.cacheKey)
          => gen.result = AssembleSections(task)
    /\ lastGet.written \in Unreadable /\ run.pc # "idle"
          => /\ lastGet.key = getPdfCacheKey(run.file)
                   => run.pc \in {"extracting", "extracted", "finished"}
             /\ lastGet.key = getCacheKey(run.file)
                   => /\ gen.pc # "idle"
                      /\ gen.pc = "resolved" => gen.result = AssembleSections(task)
\* The report key held an unparsable item, the report was computed anew,
\* setCache could not store it, and the page shows it all the same.
C35_Witness ==
    /\ ui.generatedReport # NoReport
    /\ gen.pc = "resolved"
    /\ lastGet.key = gen.cacheKey /\ lastGet.written \in Unreadable
    /\ gen.cacheKey \in DOMAIN storage /\ storage[gen.cacheKey] \in Unreadable

====
